---- MODULE Spec2Model ----
(***************************************************************************)
(* Playback synchronisation engine of src/libs/ffmpeg/lv_ffmpeg.c          *)
(* (LV_FFMPEG_AUDIO_SUPPORT != 0, LV_FFMPEG_SYNC_ENABLED != 0):            *)
(* the video ring buffer, the unified playback thread, the LVGL timer      *)
(* callback and the player commands.                                       *)
(***************************************************************************)
EXTENDS Integers, Sequences, FiniteSets, TLC

VARIABLES
    \* --- struct ffmpeg_context_s / lv_ffmpeg_player_t ---
    ctx,                \* player->ffmpeg_ctx: "none" (NULL) or "open"
    video_buffer,       \* ffmpeg_ctx->video_buffer
    is_playing,         \* ffmpeg_ctx->is_playing
    is_paused,          \* ffmpeg_ctx->is_paused
    playback_thread,    \* ffmpeg_ctx->playback_thread (0: never created)
    has_audio,          \* ffmpeg_ctx->has_audio
    video_pts,          \* ffmpeg_ctx->video_pts
    audio_pts,          \* ffmpeg_ctx->audio_pts
    start_time,         \* ffmpeg_ctx->start_time
    frame_drop_count,   \* ffmpeg_ctx->frame_drop_count
    frame_repeat_count, \* ffmpeg_ctx->frame_repeat_count
    pos,                \* read position of ffmpeg_ctx->fmt_ctx
    timer_paused,       \* player->timer is paused
    image,              \* timestamp of the frame whose pixels video_dst_data holds
    auto_restart,       \* player->auto_restart
    audio_enabled,      \* player->audio_enabled
    \* --- threads ---
    threads,            \* the playback threads ever created, by creation order
    main,               \* where the LVGL (main) thread is
    \* --- observation (history) ---
    nextId,             \* number of AVFrame clones made so far
    released,           \* how often each clone has been released
    nDecoded,           \* frames handed to video_buffer_push by the harness
    pushed,             \* clones stored by push, in push order
    popped,             \* clones returned by pop, in pop order
    evicted,            \* number of overflow evictions
    last,               \* the last queue operation and the buffer before it
    quiesced,           \* STOP has returned and no START was issued since
    lateWrite,          \* a worker pushed or wrote the clock while quiesced
    ungated,            \* a frame of a packet read under the skip condition was queued
    drift,              \* the last call of the drift policy made by the harness
    \* --- what the API calls gave ---
    result,             \* what the last lv_ffmpeg_player_set_src returned
    ignored,            \* a set_cmd since then found no context and returned
    ready,              \* LV_EVENT_READY was sent, no START or set_src since
    shown,              \* timestamp of the image at the last lv_obj_invalidate
                        \* of the tick (AV_NOPTS_VALUE: none since set_src)
    \* --- the audio path of ffmpeg_playback_thread (audio harness) ---
    audio_buf,          \* bytes allocated behind the local audio_buf (0: NULL)
    audio_buf_size,     \* the local audio_buf_size
    pcm,                \* what was handed to ffmpeg_audio_pcm_write so far
    audio_fault,        \* a PCM write error or a failed av_realloc has happened
    \* --- the mutex of the queue (lock harness) ---
    mutex,              \* video_buffer.mutex: its owner, or destroyed
    lk,                 \* where each caller of push, pop and destroy is
    \* --- pthread_join ---
    joins               \* how often each thread handle was passed to pthread_join

ctxVars   == <<ctx, is_playing, is_paused, playback_thread, has_audio, pos,
               timer_paused, auto_restart, audio_enabled>>
clockVars == <<video_pts, audio_pts, start_time, frame_drop_count, frame_repeat_count>>
queueObs  == <<nDecoded, pushed, popped, evicted, last>>
stopObs   == <<quiesced, lateWrite>>
showObs   == <<ungated, drift>>
apiObs    == <<result, ignored, ready, shown>>
audioVars == <<audio_buf, audio_buf_size, pcm, audio_fault>>
lockVars  == <<mutex, lk>>
vars      == <<ctxVars, clockVars, video_buffer, threads, main, nextId, released,
               queueObs, stopObs, image, showObs, apiObs, audioVars, lockVars,
               joins>>

(* ---------------------------------------------------------------------- *)
(* Program constants                                                       *)
(* ---------------------------------------------------------------------- *)
VIDEO_BUFFER_SIZE == 5

\* AV_NOPTS_VALUE is INT64_MIN in libavutil; any value that is no timestamp
\* of the modelled streams serves.
AV_NOPTS_VALUE == 0 - 1000000

\* no AVFrame (a NULL pointer)
NULL == [id |-> 0, pts |-> AV_NOPTS_VALUE]

(* ---------------------------------------------------------------------- *)
(* Bounds of the model                                                     *)
(* ---------------------------------------------------------------------- *)
\* number of AVFrame clones av_frame_clone hands out to the queue harness
MaxFrames == 7
\* number of frames the queue harness decodes (push attempts)
MaxPush == 8
\* number of pthread_create calls in one behaviour of the player
MaxThreads == 2
\* number of packets of the media file
StreamLen == 2
\* number of AVFrame clones made in one behaviour of the player
MaxClones == 3
\* largest value get_current_time_ms() returns (the smallest is 1)
MaxTime == 1
\* number of calls of the drift policy the drift harness makes
MaxCalls == 2

\* ffmpeg_ctx->sync_threshold and ffmpeg_ctx->sync_enabled as ffmpeg_open_file
\* sets them; nothing changes them afterwards
sync_threshold == 30
sync_enabled == TRUE
\* ffmpeg_ctx->skip_this_frame: cleared at open and never set
skip_this_frame == FALSE

\* presentation time in ms of the n-th frame of a 30 fps stream (n from 0)
PtsOf(n) == (n * 100) \div 3

Min(a, b) == IF a < b THEN a ELSE b

Slots == 0 .. (VIDEO_BUFFER_SIZE - 1)

(* ---------------------------------------------------------------------- *)
(* video_buffer_t and its operations                                       *)
(* ---------------------------------------------------------------------- *)

\* memset(buf, 0, ...) followed by the successful initialisation of the
\* mutex and the condition variable; ok = FALSE is a failed pthread_*_init
video_buffer_init(ok) ==
    [frames      |-> [i \in Slots |-> NULL],
     write_idx   |-> 0,
     read_idx    |-> 0,
     count       |-> 0,
     initialized |-> ok]

\* av_frame_clone(frame): a new AVFrame (handle cloneId) referencing the same
\* data, or NULL when the allocation fails (cloneId = 0)
av_frame_clone(frame, cloneId) ==
    IF cloneId = 0 THEN NULL ELSE [id |-> cloneId, pts |-> frame.pts]

\* mutant: a full buffer is not drained before the store
push_no_evict(buf, frame, cloneId) ==
    IF frame = NULL \/ ~buf.initialized
    THEN [buf |-> buf, ret |-> 0 - 1, freed |-> NULL]
    ELSE LET c  == av_frame_clone(frame, cloneId)
             b2 == [buf EXCEPT !.frames[buf.write_idx] = c]
         IN  IF c = NULL
             THEN [buf |-> b2, ret |-> 0 - 1, freed |-> NULL]
             ELSE [buf |-> [b2 EXCEPT !.write_idx = (buf.write_idx + 1) % VIDEO_BUFFER_SIZE,
                                      !.count = buf.count + 1],
                   ret |-> 0, freed |-> NULL]

\* mutant: on overflow the newest queued frame is dropped instead of the oldest
push_evict_newest(buf, frame, cloneId) ==
    IF frame = NULL \/ ~buf.initialized
    THEN [buf |-> buf, ret |-> 0 - 1, freed |-> NULL]
    ELSE LET full == buf.count >= VIDEO_BUFFER_SIZE
             newest == (buf.write_idx + VIDEO_BUFFER_SIZE - 1) % VIDEO_BUFFER_SIZE
             b1   == IF full
                     THEN [buf EXCEPT !.frames[newest] = NULL,
                                      !.write_idx = newest,
                                      !.count = buf.count - 1]
                     ELSE buf
             c    == av_frame_clone(frame, cloneId)
             b2   == [b1 EXCEPT !.frames[b1.write_idx] = c]
         IN  IF c = NULL
             THEN [buf |-> b2, ret |-> 0 - 1,
                   freed |-> IF full THEN buf.frames[newest] ELSE NULL]
             ELSE [buf |-> [b2 EXCEPT !.write_idx = (b1.write_idx + 1) % VIDEO_BUFFER_SIZE,
                                      !.count = b1.count + 1],
                   ret |-> 0,
                   freed |-> IF full THEN buf.frames[newest] ELSE NULL]

\* mutant: the write cursor is not advanced after the store
push_no_advance(buf, frame, cloneId) ==
    IF frame = NULL \/ ~buf.initialized
    THEN [buf |-> buf, ret |-> 0 - 1, freed |-> NULL]
    ELSE LET full == buf.count >= VIDEO_BUFFER_SIZE
             b1   == IF full
                     THEN [buf EXCEPT !.frames[buf.read_idx] = NULL,
                                      !.read_idx = (buf.read_idx + 1) % VIDEO_BUFFER_SIZE,
                                      !.count = buf.count - 1]
                     ELSE buf
             c    == av_frame_clone(frame, cloneId)
             b2   == [b1 EXCEPT !.frames[b1.write_idx] = c]
         IN  IF c = NULL
             THEN [buf |-> b2, ret |-> 0 - 1,
                   freed |-> IF full THEN buf.frames[buf.read_idx] ELSE NULL]
             ELSE [buf |-> [b2 EXCEPT !.count = b1.count + 1],
                   ret |-> 0,
                   freed |-> IF full THEN buf.frames[buf.read_idx] ELSE NULL]

\* video_buffer_push(buf, frame).  The result carries the buffer after the
\* call, the return value and the frame released by the overflow eviction
\* (NULL when none was released).
video_buffer_push(buf, frame, cloneId) ==
    IF frame = NULL \/ ~buf.initialized
    THEN [buf |-> buf, ret |-> 0 - 1, freed |-> NULL]
    ELSE LET full == buf.count >= VIDEO_BUFFER_SIZE
             \* drop the oldest frame; av_frame_free() also NULLs the slot
             b1   == IF full
                     THEN [buf EXCEPT !.frames[buf.read_idx] = NULL,
                                      !.read_idx = (buf.read_idx + 1) % VIDEO_BUFFER_SIZE,
                                      !.count = buf.count - 1]
                     ELSE buf
             c    == av_frame_clone(frame, cloneId)
             b2   == [b1 EXCEPT !.frames[b1.write_idx] = c]
         IN  IF c = NULL
             THEN [buf |-> b2, ret |-> 0 - 1,
                   freed |-> IF full THEN buf.frames[buf.read_idx] ELSE NULL]
             ELSE [buf |-> [b2 EXCEPT !.write_idx = (b1.write_idx + 1) % VIDEO_BUFFER_SIZE,
                                      !.count = b1.count + 1],
                   ret |-> 0,
                   freed |-> IF full THEN buf.frames[buf.read_idx] ELSE NULL]

\* mutant: pop takes the newest frame (the one before the write cursor)
pop_newest(buf) ==
    IF ~buf.initialized \/ buf.count = 0
    THEN [buf |-> buf, frame |-> NULL]
    ELSE LET newest == (buf.write_idx + VIDEO_BUFFER_SIZE - 1) % VIDEO_BUFFER_SIZE
         IN  [buf |-> [buf EXCEPT !.frames[newest] = NULL,
                                  !.write_idx = newest,
                                  !.count = buf.count - 1],
              frame |-> buf.frames[newest]]

\* mutant: pop leaves the frame pointer in the slot
pop_no_clear(buf) ==
    IF ~buf.initialized \/ buf.count = 0
    THEN [buf |-> buf, frame |-> NULL]
    ELSE [buf |-> [buf EXCEPT !.read_idx = (buf.read_idx + 1) % VIDEO_BUFFER_SIZE,
                              !.count = buf.count - 1],
          frame |-> buf.frames[buf.read_idx]]

\* video_buffer_pop(buf): the buffer after the call and the frame returned
video_buffer_pop(buf) ==
    IF ~buf.initialized \/ buf.count = 0
    THEN [buf |-> buf, frame |-> NULL]
    ELSE [buf |-> [buf EXCEPT !.frames[buf.read_idx] = NULL,
                              !.read_idx = (buf.read_idx + 1) % VIDEO_BUFFER_SIZE,
                              !.count = buf.count - 1],
          frame |-> buf.frames[buf.read_idx]]

\* video_buffer_destroy(buf): the buffer after the call and the frames it
\* released.  Cursors and count are left as they were.
video_buffer_destroy(buf) ==
    IF ~buf.initialized
    THEN [buf |-> buf, freed |-> {}]
    ELSE [buf |-> [buf EXCEPT !.frames = [i \in Slots |-> NULL],
                              !.initialized = FALSE],
          freed |-> {buf.frames[i] : i \in Slots} \ {NULL}]

\* the queued frames, oldest first
Contents(buf) ==
    [k \in 1 .. buf.count |-> buf.frames[(buf.read_idx + k - 1) % VIDEO_BUFFER_SIZE]]


(* ---------------------------------------------------------------------- *)
(* Initial state: the player object after its constructor                  *)
(* ---------------------------------------------------------------------- *)
NoOp == [op |-> "none", pre |-> video_buffer_init(FALSE), arg |-> NULL,
         ret |-> 0, out |-> NULL, cloneOk |-> FALSE]

\* a record of one queue operation: the buffer before it, the frame passed
\* in, the return value and the frame that left the buffer
Op(name, pre, arg, ret, out, cloneOk) ==
    [op |-> name, pre |-> pre, arg |-> arg, ret |-> ret, out |-> out,
     cloneOk |-> cloneOk]

\* av_frame_unref + av_frame_free of a clone
Release(rel, frame) ==
    IF frame = NULL THEN rel
    ELSE [rel EXCEPT ![frame.id] = Min(rel[frame.id] + 1, 2)]

\* bookkeeping of a push: the evicted frame is released, a new clone starts
\* with no release
AfterPush(rel, freed, cloneOk) ==
    IF cloneOk THEN Append(Release(rel, freed), 0) ELSE Release(rel, freed)

\* the frame the decoder hands over: not a clone (id -1), timestamp p
Decoded(p) == [id |-> 0 - 1, pts |-> p]

\* no call of the drift policy yet.  fn: the function called; en, audio,
\* vpts, apts: sync_enabled, has_audio, video_pts and audio_pts it read;
\* pkt: the timestamp of the packet at hand; ret: what it returned; drop,
\* repeat: the counters before the call; n: calls so far
NoCall == [fn |-> "none", en |-> FALSE, audio |-> FALSE,
           vpts |-> AV_NOPTS_VALUE, apts |-> AV_NOPTS_VALUE,
           pkt |-> AV_NOPTS_VALUE, ret |-> FALSE, drop |-> 0, repeat |-> 0,
           n |-> 0]

(* ---------------------------------------------------------------------- *)
(* Queue harness: the producer side (push of a decoded frame) and the      *)
(* consumer side (pop, then release) in every interleaving on an           *)
(* initialised queue                                                       *)
(* ---------------------------------------------------------------------- *)
\* mutant: an overflow eviction is counted as a dropped frame
QPush_counts_eviction(cloneOk) ==
    /\ nDecoded < MaxPush
    /\ cloneOk => nextId < MaxFrames
    /\ LET frame == Decoded(PtsOf(nDecoded))
           r     == video_buffer_push(video_buffer, frame,
                                      IF cloneOk THEN nextId + 1 ELSE 0)
       IN  /\ video_buffer' = r.buf
           /\ nextId' = IF cloneOk THEN nextId + 1 ELSE nextId
           /\ released' = AfterPush(released, r.freed, cloneOk)
           /\ nDecoded' = nDecoded + 1
           /\ pushed' = IF r.ret = 0 THEN Append(pushed, nextId + 1) ELSE pushed
           /\ evicted' = IF r.freed # NULL THEN evicted + 1 ELSE evicted
           /\ last' = Op("push", video_buffer, frame, r.ret, r.freed, cloneOk)
           /\ frame_drop_count' = IF r.freed # NULL THEN frame_drop_count + 1
                                  ELSE frame_drop_count
    /\ UNCHANGED <<ctxVars, video_pts, audio_pts, start_time, frame_repeat_count,
                   threads, main, popped, stopObs, image, showObs, apiObs,
                   audioVars, lockVars, joins>>

QPush(cloneOk) ==
    /\ nDecoded < MaxPush
    /\ cloneOk => nextId < MaxFrames
    /\ LET frame == Decoded(PtsOf(nDecoded))
           r     == video_buffer_push(video_buffer, frame,
                                      IF cloneOk THEN nextId + 1 ELSE 0)
       IN  /\ video_buffer' = r.buf
           /\ nextId' = IF cloneOk THEN nextId + 1 ELSE nextId
           /\ released' = AfterPush(released, r.freed, cloneOk)
           /\ nDecoded' = nDecoded + 1
           /\ pushed' = IF r.ret = 0 THEN Append(pushed, nextId + 1) ELSE pushed
           /\ evicted' = IF r.freed # NULL THEN evicted + 1 ELSE evicted
           /\ last' = Op("push", video_buffer, frame, r.ret, r.freed, cloneOk)
    /\ UNCHANGED <<ctxVars, clockVars, threads, main, popped, stopObs, image, showObs, apiObs,
                   audioVars, lockVars, joins>>

QPop ==
    /\ LET r == video_buffer_pop(video_buffer)
       IN  /\ video_buffer' = r.buf
           /\ released' = Release(released, r.frame)
           /\ popped' = IF r.frame # NULL THEN Append(popped, r.frame.id) ELSE popped
           /\ last' = Op("pop", video_buffer, NULL, 0, r.frame, FALSE)
    /\ UNCHANGED <<ctxVars, clockVars, threads, main, nextId, nDecoded, pushed,
                   evicted, stopObs, image, showObs, apiObs,
                   audioVars, lockVars, joins>>


\* nothing was handed to the PCM device yet
NoPcm == [n |-> 0, pts |-> AV_NOPTS_VALUE, clock |-> AV_NOPTS_VALUE]

\* no thread is inside push, pop or destroy
NoCallers == << >>

(* ---------------------------------------------------------------------- *)
(* Initial states                                                          *)
(* ---------------------------------------------------------------------- *)
\* lv_ffmpeg_player_constructor: no context, timer created and paused
Init ==
    /\ ctx = "none"
    /\ video_buffer = video_buffer_init(FALSE)
    /\ is_playing = FALSE
    /\ is_paused = FALSE
    /\ playback_thread = 0
    /\ has_audio = FALSE
    /\ video_pts = AV_NOPTS_VALUE
    /\ audio_pts = AV_NOPTS_VALUE
    /\ start_time = 0
    /\ frame_drop_count = 0
    /\ frame_repeat_count = 0
    /\ pos = 0
    /\ timer_paused = TRUE
    /\ auto_restart = FALSE
    /\ audio_enabled = TRUE
    /\ threads = << >>
    /\ main = "idle"
    /\ nextId = 0
    /\ released = << >>
    /\ nDecoded = 0
    /\ pushed = << >>
    /\ popped = << >>
    /\ evicted = 0
    /\ last = NoOp
    /\ quiesced = FALSE
    /\ lateWrite = FALSE
    /\ image = AV_NOPTS_VALUE
    /\ ungated = FALSE
    /\ drift = NoCall
    /\ result = "none"
    /\ ignored = FALSE
    /\ ready = FALSE
    /\ shown = AV_NOPTS_VALUE
    /\ audio_buf = 0
    /\ audio_buf_size = 0
    /\ pcm = NoPcm
    /\ audio_fault = FALSE
    /\ mutex = "free"
    /\ lk = NoCallers
    /\ joins = [h \in 0 .. MaxThreads |-> 0]

\* the queue harness starts right after a successful lv_ffmpeg_player_set_src
InitQ ==
    /\ ctx = "open"
    /\ video_buffer = video_buffer_init(TRUE)
    /\ is_playing = FALSE
    /\ is_paused = FALSE
    /\ playback_thread = 0
    /\ has_audio \in BOOLEAN
    /\ video_pts = AV_NOPTS_VALUE
    /\ audio_pts = AV_NOPTS_VALUE
    /\ start_time = 0
    /\ frame_drop_count = 0
    /\ frame_repeat_count = 0
    /\ pos = 0
    /\ timer_paused = TRUE
    /\ auto_restart = FALSE
    /\ audio_enabled = TRUE
    /\ threads = << >>
    /\ main = "idle"
    /\ nextId = 0
    /\ released = << >>
    /\ nDecoded = 0
    /\ pushed = << >>
    /\ popped = << >>
    /\ evicted = 0
    /\ last = NoOp
    /\ quiesced = FALSE
    /\ lateWrite = FALSE
    /\ image = AV_NOPTS_VALUE
    /\ ungated = FALSE
    /\ drift = NoCall
    /\ result = "none"
    /\ ignored = FALSE
    /\ ready = FALSE
    /\ shown = AV_NOPTS_VALUE
    /\ audio_buf = 0
    /\ audio_buf_size = 0
    /\ pcm = NoPcm
    /\ audio_fault = FALSE
    /\ mutex = "free"
    /\ lk = NoCallers
    /\ joins = [h \in 0 .. MaxThreads |-> 0]

NextQ == (\E cloneOk \in BOOLEAN : QPush(cloneOk)) \/ QPop

SpecQ == InitQ /\ [][NextQ]_vars

(* ---------------------------------------------------------------------- *)
(* Drift policy                                                            *)
(* ---------------------------------------------------------------------- *)
\* get_current_time_ms() at the first timestamped frame
StartTimeAt(now) == IF start_time = 0 THEN now ELSE start_time

\* mutant: the timestamps are not tested for AV_NOPTS_VALUE
skip_no_unset_test(en, audio, vpts, apts, thr) ==
    /\ en /\ audio
    /\ vpts - apts < 0 - thr

\* mutant: the comparison with the threshold is not strict
skip_nonstrict(en, audio, vpts, apts, thr) ==
    /\ en /\ audio
    /\ apts # AV_NOPTS_VALUE /\ vpts # AV_NOPTS_VALUE
    /\ vpts - apts <= 0 - thr

\* should_skip_video_frame(): the decision; the caller's action adds the
\* increment of frame_drop_count
should_skip_video_frame(en, audio, vpts, apts, thr) ==
    /\ en /\ audio
    /\ apts # AV_NOPTS_VALUE /\ vpts # AV_NOPTS_VALUE
    /\ vpts - apts < 0 - thr

\* mutant: the comparison with the threshold is not strict
repeat_nonstrict(en, audio, vpts, apts, thr) ==
    /\ en /\ audio
    /\ apts # AV_NOPTS_VALUE /\ vpts # AV_NOPTS_VALUE
    /\ vpts - apts >= thr

\* should_repeat_video_frame(): the decision; the caller's action adds the
\* increment of frame_repeat_count
should_repeat_video_frame(en, audio, vpts, apts, thr) ==
    /\ en /\ audio
    /\ apts # AV_NOPTS_VALUE /\ vpts # AV_NOPTS_VALUE
    /\ vpts - apts > thr

\* the call should_skip_video_frame(ffmpeg_ctx), with ffmpeg_ctx->sync_enabled
\* = en: the decision and the increment of frame_drop_count
SkipCall(en) ==
    /\ drift.n < MaxCalls
    /\ LET r == should_skip_video_frame(en, has_audio, video_pts, audio_pts,
                                        sync_threshold)
       IN  /\ frame_drop_count' =
                  IF r THEN frame_drop_count + 1 ELSE frame_drop_count
           /\ drift' = [fn |-> "skip", en |-> en, audio |-> has_audio,
                        vpts |-> video_pts, apts |-> audio_pts,
                        pkt |-> AV_NOPTS_VALUE, ret |-> r,
                        drop |-> frame_drop_count,
                        repeat |-> frame_repeat_count, n |-> drift.n + 1]
    /\ UNCHANGED <<ctxVars, video_pts, audio_pts, start_time, frame_repeat_count,
                   video_buffer, threads, main, nextId, released, queueObs,
                   stopObs, image, ungated, apiObs,
                   audioVars, lockVars, joins>>

\* the call should_repeat_video_frame(ffmpeg_ctx), with
\* ffmpeg_ctx->sync_enabled = en: the decision and the increment of
\* frame_repeat_count
RepeatCall(en) ==
    /\ drift.n < MaxCalls
    /\ LET r == should_repeat_video_frame(en, has_audio, video_pts, audio_pts,
                                          sync_threshold)
       IN  /\ frame_repeat_count' =
                  IF r THEN frame_repeat_count + 1 ELSE frame_repeat_count
           /\ drift' = [fn |-> "repeat", en |-> en, audio |-> has_audio,
                        vpts |-> video_pts, apts |-> audio_pts,
                        pkt |-> AV_NOPTS_VALUE, ret |-> r,
                        drop |-> frame_drop_count,
                        repeat |-> frame_repeat_count, n |-> drift.n + 1]
    /\ UNCHANGED <<ctxVars, video_pts, audio_pts, start_time, frame_drop_count,
                   video_buffer, threads, main, nextId, released, queueObs,
                   stopObs, image, ungated, apiObs,
                   audioVars, lockVars, joins>>

\* mutant: a skipped packet does not advance video_pts
UpdateNextFrame_frozen(pkt, decoded, now) ==
    /\ drift.n < MaxCalls
    /\ LET r == should_skip_video_frame(sync_enabled, has_audio, video_pts,
                                        audio_pts, sync_threshold)
       IN  /\ frame_drop_count' =
                  IF r THEN frame_drop_count + 1 ELSE frame_drop_count
           /\ video_pts' = IF ~r /\ decoded /\ pkt # AV_NOPTS_VALUE
                           THEN pkt ELSE video_pts
           /\ start_time' = IF ~r /\ decoded /\ pkt # AV_NOPTS_VALUE
                            THEN StartTimeAt(now) ELSE start_time
           /\ image' = IF ~r /\ decoded THEN pkt ELSE image
           /\ drift' = [fn |-> "next", en |-> sync_enabled, audio |-> has_audio,
                        vpts |-> video_pts, apts |-> audio_pts,
                        pkt |-> pkt, ret |-> r,
                        drop |-> frame_drop_count,
                        repeat |-> frame_repeat_count, n |-> drift.n + 1]
    /\ UNCHANGED <<ctxVars, audio_pts, frame_repeat_count, video_buffer, threads,
                   main, nextId, released, queueObs, stopObs, ungated, apiObs,
                   audioVars, lockVars, joins>>

\* ffmpeg_update_next_frame on a video packet with timestamp pkt (in ms;
\* AV_NOPTS_VALUE: none).  Under the skip decision the clock is advanced
\* from the packet and the packet is dropped; else the packet is decoded
\* and ffmpeg_output_video_frame sets the clock from the frame and converts
\* it into the image buffer (decoded = FALSE: the decoder gave no frame).
UpdateNextFrame(pkt, decoded, now) ==
    /\ drift.n < MaxCalls
    /\ LET r == should_skip_video_frame(sync_enabled, has_audio, video_pts,
                                        audio_pts, sync_threshold)
       IN  /\ frame_drop_count' =
                  IF r THEN frame_drop_count + 1 ELSE frame_drop_count
           /\ video_pts' = IF (r \/ decoded) /\ pkt # AV_NOPTS_VALUE
                           THEN pkt ELSE video_pts
           /\ start_time' = IF ~r /\ decoded /\ pkt # AV_NOPTS_VALUE
                            THEN StartTimeAt(now) ELSE start_time
           /\ image' = IF ~r /\ decoded THEN pkt ELSE image
           /\ drift' = [fn |-> "next", en |-> sync_enabled, audio |-> has_audio,
                        vpts |-> video_pts, apts |-> audio_pts,
                        pkt |-> pkt, ret |-> r,
                        drop |-> frame_drop_count,
                        repeat |-> frame_repeat_count, n |-> drift.n + 1]
    /\ UNCHANGED <<ctxVars, audio_pts, frame_repeat_count, video_buffer, threads,
                   main, nextId, released, queueObs, stopObs, ungated, apiObs,
                   audioVars, lockVars, joins>>

\* clock states and packet timestamps the drift policy is applied to
VideoPtsIn == {AV_NOPTS_VALUE, 150, 170, 210, 230, 260}
AudioPtsIn == {AV_NOPTS_VALUE, 200}
PktPts == {AV_NOPTS_VALUE, 160, 180, 260}

\* the drift harness: an open context in any of the clock states above
InitD ==
    /\ ctx = "open"
    /\ video_buffer = video_buffer_init(TRUE)
    /\ is_playing = FALSE
    /\ is_paused = FALSE
    /\ playback_thread = 0
    /\ has_audio \in BOOLEAN
    /\ video_pts \in VideoPtsIn
    /\ audio_pts \in AudioPtsIn
    /\ start_time = 0
    /\ frame_drop_count = 0
    /\ frame_repeat_count = 0
    /\ pos = 0
    /\ timer_paused = TRUE
    /\ auto_restart = FALSE
    /\ audio_enabled = TRUE
    /\ threads = << >>
    /\ main = "idle"
    /\ nextId = 0
    /\ released = << >>
    /\ nDecoded = 0
    /\ pushed = << >>
    /\ popped = << >>
    /\ evicted = 0
    /\ last = NoOp
    /\ quiesced = FALSE
    /\ lateWrite = FALSE
    /\ image = AV_NOPTS_VALUE
    /\ ungated = FALSE
    /\ drift = NoCall
    /\ result = "none"
    /\ ignored = FALSE
    /\ ready = FALSE
    /\ shown = AV_NOPTS_VALUE
    /\ audio_buf = 0
    /\ audio_buf_size = 0
    /\ pcm = NoPcm
    /\ audio_fault = FALSE
    /\ mutex = "free"
    /\ lk = NoCallers
    /\ joins = [h \in 0 .. MaxThreads |-> 0]

\* the drift policy is called and frames pass through the queue in any order
NextD ==
    \/ \E en \in BOOLEAN : SkipCall(en)
    \/ \E en \in BOOLEAN : RepeatCall(en)
    \/ \E pkt \in PktPts : \E decoded \in BOOLEAN : \E now \in 1 .. MaxTime :
           UpdateNextFrame(pkt, decoded, now)
    \/ QPush(TRUE)
    \/ QPop

SpecD == InitD /\ [][NextD]_vars

(* ---------------------------------------------------------------------- *)
(* The player: commands and teardown on the LVGL thread                    *)
(* ---------------------------------------------------------------------- *)
\* skip: the skip condition of the drift policy held when the packet of the
\* frame at hand was read
\* st0: start_time was 0 when the frame at hand was decoded; the thread's
\* test "start_time == 0" may date from then
NewThread ==
    [pc |-> "loop", frame |-> NULL, stale |-> FALSE, skip |-> FALSE, st0 |-> FALSE]

Alive(t) == threads[t].pc # "done"

\* pthread_join was called with handle h and has returned
Joined(h) == [joins EXCEPT ![h] = Min(joins[h] + 1, 2)]

\* pthread_join(ffmpeg_ctx->playback_thread) returns
JoinReturns == playback_thread # 0 /\ ~Alive(playback_thread)

\* the synchronisation state as ffmpeg_open_file and CMD_STOP set it
ClockReset ==
    /\ video_pts' = AV_NOPTS_VALUE
    /\ audio_pts' = AV_NOPTS_VALUE
    /\ start_time' = 0
    /\ frame_drop_count' = 0
    /\ frame_repeat_count' = 0

\* ffmpeg_close() from the destroy of the video buffer on: the queued frames
\* are released and the context is freed.  A thread that is still running
\* keeps a pointer to the freed context.
CloseRest ==
    /\ released' = IF ctx = "open"
                   THEN [i \in 1 .. Len(released) |->
                            IF \E f \in video_buffer_destroy(video_buffer).freed : f.id = i
                            THEN Min(released[i] + 1, 2) ELSE released[i]]
                   ELSE released
    /\ threads' = IF ctx = "open"
                  THEN [t \in 1 .. Len(threads) |->
                           IF Alive(t) THEN [threads[t] EXCEPT !.stale = TRUE]
                           ELSE threads[t]]
                  ELSE threads

\* no context: every field of it is gone (the image buffer included)
NoCtx ==
    /\ ctx' = "none"
    /\ video_buffer' = video_buffer_init(FALSE)
    /\ is_playing' = FALSE
    /\ is_paused' = FALSE
    /\ playback_thread' = 0
    /\ has_audio' = FALSE
    /\ pos' = 0
    /\ image' = AV_NOPTS_VALUE
    /\ ClockReset

\* ffmpeg_open_file + ffmpeg_image_allocate + video_buffer_init succeeded;
\* lv_ffmpeg_player_set_src zeroes the image buffer
FreshCtx(audio) ==
    /\ ctx' = "open"
    /\ video_buffer' = video_buffer_init(TRUE)
    /\ is_playing' = FALSE
    /\ is_paused' = FALSE
    /\ playback_thread' = 0
    /\ has_audio' = audio
    /\ pos' = 0
    /\ image' = AV_NOPTS_VALUE
    /\ ClockReset

\* lv_ffmpeg_player_set_src with a context whose thread is flagged playing:
\* ffmpeg_close clears is_playing and waits in pthread_join
SetSrcBegin ==
    /\ main = "idle" /\ ctx = "open" /\ is_playing
    /\ is_playing' = FALSE
    /\ main' = "src_join"
    /\ UNCHANGED <<ctx, is_paused, playback_thread, has_audio, pos, timer_paused,
                   auto_restart, audio_enabled, clockVars, video_buffer, threads,
                   nextId, released, queueObs, stopObs, image, showObs, apiObs,
                   audioVars, lockVars, joins>>

\* the rest of lv_ffmpeg_player_set_src: the old context is closed, the timer
\* paused and the new source opened (openOk = FALSE: any of the failures)
SetSrcRest(openOk, audio) ==
    /\ \/ main = "idle" /\ (ctx = "none" \/ ~is_playing)
       \/ main = "src_join" /\ JoinReturns
    /\ CloseRest
    /\ timer_paused' = TRUE
    /\ IF openOk THEN FreshCtx(audio) ELSE NoCtx
    /\ result' = IF openOk THEN "ok" ELSE "invalid"
    /\ ignored' = FALSE
    /\ ready' = FALSE
    /\ shown' = AV_NOPTS_VALUE
    /\ main' = "idle"
    /\ quiesced' = FALSE
    /\ joins' = IF main = "src_join" THEN Joined(playback_thread) ELSE joins
    /\ UNCHANGED <<auto_restart, audio_enabled, nextId, queueObs, lateWrite,
                   showObs, audioVars, lockVars>>

\* lv_ffmpeg_player_destructor with a context whose thread is flagged playing
DeleteBegin ==
    /\ main = "idle" /\ ctx = "open" /\ is_playing
    /\ is_playing' = FALSE
    /\ timer_paused' = TRUE
    /\ main' = "del_join"
    /\ UNCHANGED <<ctx, is_paused, playback_thread, has_audio, pos,
                   auto_restart, audio_enabled, clockVars, video_buffer, threads,
                   nextId, released, queueObs, stopObs, image, showObs, apiObs,
                   audioVars, lockVars, joins>>

\* the rest of lv_ffmpeg_player_destructor
DeleteRest ==
    /\ \/ main = "idle" /\ (ctx = "none" \/ ~is_playing)
       \/ main = "del_join" /\ JoinReturns
    /\ CloseRest
    /\ timer_paused' = TRUE
    /\ NoCtx
    /\ main' = "deleted"
    /\ quiesced' = FALSE
    /\ joins' = IF main = "del_join" THEN Joined(playback_thread) ELSE joins
    /\ UNCHANGED <<auto_restart, audio_enabled, nextId, queueObs, lateWrite,
                   showObs, apiObs, audioVars, lockVars>>

\* CMD_START: seek to the start, resume the timer, set the flags and create
\* a playback thread, whatever thread exists already
StartBody ==
    /\ Len(threads) < MaxThreads
    /\ pos' = 0
    /\ timer_paused' = FALSE
    /\ is_playing' = TRUE
    /\ is_paused' = FALSE
    /\ threads' = Append(threads, NewThread)
    /\ playback_thread' = Len(threads) + 1
    /\ quiesced' = FALSE
    /\ ready' = FALSE
    /\ UNCHANGED <<ctx, has_audio, auto_restart, audio_enabled, clockVars,
                   nextId, queueObs, lateWrite, image, showObs, result, ignored,
                   shown, audioVars, lockVars, joins>>

\* CMD_STOP from the reset of the synchronisation state on
StopTail ==
    /\ ClockReset
    /\ quiesced' = TRUE
    /\ main' = "idle"
    /\ UNCHANGED <<ctx, is_paused, playback_thread, has_audio, auto_restart,
                   audio_enabled, threads, nextId, queueObs, lateWrite, image,
                   showObs, result, ignored, shown, audioVars, lockVars>>

\* mutant: CMD_START does not test the context
CmdStart_unchecked ==
    /\ main = "idle"
    /\ StartBody
    /\ UNCHANGED <<main, video_buffer, released>>

CmdStart ==
    /\ main = "idle" /\ ctx = "open"
    /\ StartBody
    /\ UNCHANGED <<main, video_buffer, released>>

\* CMD_START when pthread_create fails: its result is not examined, the
\* flags are set as in every START and ffmpeg_ctx->playback_thread keeps
\* the handle it had.  (Followed here for a START that comes after a STOP.)
CmdStartNoThread ==
    /\ main = "idle" /\ ctx = "open" /\ quiesced
    /\ pos' = 0
    /\ timer_paused' = FALSE
    /\ is_playing' = TRUE
    /\ is_paused' = FALSE
    /\ quiesced' = FALSE
    /\ ready' = FALSE
    /\ UNCHANGED <<ctx, playback_thread, has_audio, auto_restart, audio_enabled,
                   clockVars, video_buffer, threads, main, nextId, released,
                   queueObs, lateWrite, image, showObs, result, ignored, shown,
                   audioVars, lockVars, joins>>

\* lv_ffmpeg_player_set_cmd without a context: "ffmpeg_ctx is NULL" is
\* logged and the call returns, whatever the command
CmdNoCtx ==
    /\ main = "idle" /\ ctx = "none"
    /\ ignored' = TRUE
    /\ UNCHANGED <<ctxVars, clockVars, video_buffer, threads, main, nextId,
                   released, queueObs, stopObs, image, showObs, result, ready,
                   shown, audioVars, lockVars, joins>>

\* CMD_STOP while is_playing is set: up to the pthread_join
CmdStopBegin ==
    /\ main = "idle" /\ ctx = "open" /\ is_playing
    /\ pos' = 0
    /\ timer_paused' = TRUE
    /\ is_playing' = FALSE
    /\ main' = "stop_join"
    /\ UNCHANGED <<ctx, is_paused, playback_thread, has_audio, auto_restart,
                   audio_enabled, clockVars, video_buffer, threads, nextId,
                   released, queueObs, stopObs, image, showObs, apiObs,
                   audioVars, lockVars, joins>>

\* mutant: CMD_STOP resets the clock without waiting for the thread
CmdStopJoined_no_wait ==
    /\ main = "stop_join"
    /\ StopTail
    /\ joins' = Joined(playback_thread)
    /\ UNCHANGED <<is_playing, pos, timer_paused, video_buffer, released, ready>>

\* CMD_STOP after the pthread_join returned
CmdStopJoined ==
    /\ main = "stop_join" /\ JoinReturns
    /\ StopTail
    /\ joins' = Joined(playback_thread)
    /\ UNCHANGED <<is_playing, pos, timer_paused, video_buffer, released, ready>>

\* CMD_STOP while is_playing is clear: no join
CmdStopIdle ==
    /\ main = "idle" /\ ctx = "open" /\ ~is_playing
    /\ pos' = 0
    /\ timer_paused' = TRUE
    /\ StopTail
    /\ UNCHANGED <<is_playing, video_buffer, released, ready, joins>>

\* mutant: PAUSE sets is_paused whether or not is_playing is set
CmdPause_unguarded ==
    /\ main = "idle" /\ ctx = "open"
    /\ timer_paused' = TRUE
    /\ is_paused' = TRUE
    /\ UNCHANGED <<ctx, is_playing, playback_thread, has_audio, pos, auto_restart,
                   audio_enabled, clockVars, video_buffer, threads, main, nextId,
                   released, queueObs, stopObs, image, showObs, apiObs,
                   audioVars, lockVars, joins>>

\* CMD_PAUSE: the timer is paused; is_paused is set if is_playing is
CmdPause ==
    /\ main = "idle" /\ ctx = "open"
    /\ timer_paused' = TRUE
    /\ is_paused' = IF is_playing THEN TRUE ELSE is_paused
    /\ UNCHANGED <<ctx, is_playing, playback_thread, has_audio, pos, auto_restart,
                   audio_enabled, clockVars, video_buffer, threads, main, nextId,
                   released, queueObs, stopObs, image, showObs, apiObs,
                   audioVars, lockVars, joins>>

\* mutant: RESUME re-bases the clock (start_time = 0)
CmdResume_rebase ==
    /\ main = "idle" /\ ctx = "open"
    /\ timer_paused' = FALSE
    /\ is_paused' = IF is_playing THEN FALSE ELSE is_paused
    /\ start_time' = 0
    /\ UNCHANGED <<ctx, is_playing, playback_thread, has_audio, pos, auto_restart,
                   audio_enabled, video_pts, audio_pts, frame_drop_count,
                   frame_repeat_count, video_buffer, threads, main, nextId,
                   released, queueObs, stopObs, image, showObs, apiObs,
                   audioVars, lockVars, joins>>

CmdResume ==
    /\ main = "idle" /\ ctx = "open"
    /\ timer_paused' = FALSE
    /\ is_paused' = IF is_playing THEN FALSE ELSE is_paused
    /\ UNCHANGED <<ctx, is_playing, playback_thread, has_audio, pos, auto_restart,
                   audio_enabled, clockVars, video_buffer, threads, main, nextId,
                   released, queueObs, stopObs, image, showObs, apiObs,
                   audioVars, lockVars, joins>>

\* lv_ffmpeg_player_set_auto_restart
SetAutoRestart(en) ==
    /\ main = "idle" /\ en # auto_restart
    /\ auto_restart' = en
    /\ UNCHANGED <<ctx, is_playing, is_paused, playback_thread, has_audio, pos,
                   timer_paused, audio_enabled, clockVars, video_buffer, threads,
                   main, nextId, released, queueObs, stopObs, image, showObs, apiObs,
                   audioVars, lockVars, joins>>

\* lv_ffmpeg_player_set_audio_enabled
SetAudioEnabled(en) ==
    /\ main = "idle" /\ en # audio_enabled
    /\ audio_enabled' = en
    /\ UNCHANGED <<ctx, is_playing, is_paused, playback_thread, has_audio, pos,
                   timer_paused, auto_restart, clockVars, video_buffer, threads,
                   main, nextId, released, queueObs, stopObs, image, showObs, apiObs,
                   audioVars, lockVars, joins>>

(* ---------------------------------------------------------------------- *)
(* lv_ffmpeg_player_frame_update_cb: one tick of the player's timer        *)
(* ---------------------------------------------------------------------- *)
TickEnabled == main = "idle" /\ ctx = "open" /\ ~timer_paused

\* mutant: the tick invalidates the object although it popped nothing
TickHold_invalidates ==
    /\ TickEnabled
    /\ LET r == video_buffer_pop(video_buffer)
       IN  /\ r.frame = NULL
           /\ video_buffer' = r.buf
    /\ is_playing
    /\ shown' = image
    /\ UNCHANGED <<ctxVars, clockVars, threads, main, nextId, released,
                   queueObs, stopObs, image, showObs, result, ignored, ready,
                   audioVars, lockVars, joins>>

\* the buffer is empty and is_playing is set: return, nothing changes
TickHold ==
    /\ TickEnabled
    /\ LET r == video_buffer_pop(video_buffer)
       IN  /\ r.frame = NULL
           /\ video_buffer' = r.buf
    /\ is_playing
    /\ UNCHANGED <<ctxVars, clockVars, threads, main, nextId, released,
                   queueObs, stopObs, image, showObs, apiObs,
                   audioVars, lockVars, joins>>

\* the buffer is empty, is_playing is clear, auto_restart: CMD_START
TickRestart ==
    /\ TickEnabled
    /\ video_buffer_pop(video_buffer).frame = NULL
    /\ ~is_playing /\ auto_restart
    /\ StartBody
    /\ UNCHANGED <<main, video_buffer, released>>

\* mutant: the tick does not look at auto_restart
TickStop_always ==
    /\ TickEnabled
    /\ video_buffer_pop(video_buffer).frame = NULL
    /\ ~is_playing
    /\ pos' = 0
    /\ timer_paused' = TRUE
    /\ StopTail
    /\ ready' = TRUE
    /\ UNCHANGED <<is_playing, video_buffer, released, joins>>

\* the buffer is empty, is_playing is clear, no auto_restart: CMD_STOP (which
\* joins nothing) and LV_EVENT_READY
TickStop ==
    /\ TickEnabled
    /\ video_buffer_pop(video_buffer).frame = NULL
    /\ ~is_playing /\ ~auto_restart
    /\ pos' = 0
    /\ timer_paused' = TRUE
    /\ StopTail
    /\ ready' = TRUE
    /\ UNCHANGED <<is_playing, video_buffer, released, joins>>

\* mutant: on a repeat the frame is only looked at and stays queued
TickFrame_repeat_keeps ==
    /\ TickEnabled
    /\ LET r == video_buffer_pop(video_buffer)
           repeat == should_repeat_video_frame(sync_enabled, has_audio, video_pts,
                                               audio_pts, sync_threshold)
       IN  /\ r.frame # NULL
           /\ video_buffer' = IF repeat THEN video_buffer ELSE r.buf
           /\ released' = IF repeat THEN released ELSE Release(released, r.frame)
           /\ frame_repeat_count' =
                  IF repeat THEN frame_repeat_count + 1 ELSE frame_repeat_count
           /\ shown' = IF repeat \/ skip_this_frame THEN shown ELSE image
    /\ UNCHANGED <<ctxVars, video_pts, audio_pts, start_time, frame_drop_count,
                   threads, main, nextId, queueObs, stopObs, image, showObs,
                   result, ignored, ready, audioVars, lockVars, joins>>

\* a frame was popped: it is released, then either the repeat decision
\* returns early or the object is invalidated
TickFrame ==
    /\ TickEnabled
    /\ LET r == video_buffer_pop(video_buffer)
       IN  /\ r.frame # NULL
           /\ video_buffer' = r.buf
           /\ released' = Release(released, r.frame)
    /\ IF should_repeat_video_frame(sync_enabled, has_audio, video_pts,
                                    audio_pts, sync_threshold)
       THEN /\ frame_repeat_count' = frame_repeat_count + 1
            /\ shown' = shown
       ELSE /\ frame_repeat_count' = frame_repeat_count
            /\ shown' = IF skip_this_frame THEN shown ELSE image
    /\ UNCHANGED <<ctxVars, video_pts, audio_pts, start_time, frame_drop_count,
                   threads, main, nextId, queueObs, stopObs, image, showObs,
                   result, ignored, ready, audioVars, lockVars, joins>>

(* ---------------------------------------------------------------------- *)
(* ffmpeg_playback_thread                                                  *)
(* ---------------------------------------------------------------------- *)
Running(t) ==
    /\ t \in 1 .. Len(threads)
    /\ ~threads[t].stale
    /\ ctx = "open"

\* at the top of the loop: "loop" on entry or after a continue, "poll" after
\* the usleep of the pause branch
AtLoop(t) == Running(t) /\ threads[t].pc \in {"loop", "poll"}

\* the thread may read a packet: the loop condition holds and it is not paused
MayRead(t) == AtLoop(t) /\ is_playing /\ ~is_paused

SetPc(t, pc, frame) ==
    threads' = [threads EXCEPT ![t].pc = pc, ![t].frame = frame,
                               ![t].skip = (threads[t].skip /\ frame # NULL),
                               ![t].st0 = (threads[t].st0 /\ frame # NULL)]

\* the video packet just read gave a frame; what the drift policy would say
\* of it is noted
GotFrame(t, frame) ==
    threads' = [threads EXCEPT
                   ![t].pc = "frame", ![t].frame = frame,
                   ![t].skip = should_skip_video_frame(sync_enabled, has_audio,
                                                       video_pts, audio_pts,
                                                       sync_threshold),
                   ![t].st0 = (start_time = 0)]

\* mutant: the pause poll does not test is_playing
WorkerExit_not_from_poll(t) ==
    /\ AtLoop(t) /\ ~is_playing /\ ~is_paused
    /\ SetPc(t, "done", NULL)
    /\ UNCHANGED <<ctxVars, clockVars, video_buffer, main, nextId, released,
                   queueObs, stopObs, image, showObs, apiObs,
                   audioVars, lockVars, joins>>

\* while(ffmpeg_ctx->is_playing) fails: cleanup and return
WorkerExit(t) ==
    /\ AtLoop(t) /\ ~is_playing
    /\ SetPc(t, "done", NULL)
    /\ UNCHANGED <<ctxVars, clockVars, video_buffer, main, nextId, released,
                   queueObs, stopObs, image, showObs, apiObs,
                   audioVars, lockVars, joins>>

\* is_paused: usleep(10000) and continue
WorkerPaused(t) ==
    /\ AtLoop(t) /\ is_playing /\ is_paused
    /\ SetPc(t, "poll", NULL)
    /\ UNCHANGED <<ctxVars, clockVars, video_buffer, main, nextId, released,
                   queueObs, stopObs, image, showObs, apiObs,
                   audioVars, lockVars, joins>>

\* av_read_frame returns AVERROR_EOF: break, is_playing is left as it is
WorkerEof(t) ==
    /\ MayRead(t) /\ pos = StreamLen
    /\ SetPc(t, "done", NULL)
    /\ UNCHANGED <<ctxVars, clockVars, video_buffer, main, nextId, released,
                   queueObs, stopObs, image, showObs, apiObs,
                   audioVars, lockVars, joins>>

\* mutant: a read error other than end of stream ends the loop
WorkerReadError_fatal(t) ==
    /\ MayRead(t) /\ pos < StreamLen
    /\ SetPc(t, "done", NULL)
    /\ UNCHANGED <<ctxVars, clockVars, video_buffer, main, nextId, released,
                   queueObs, stopObs, image, showObs, apiObs,
                   audioVars, lockVars, joins>>

\* av_read_frame returns another error: usleep(10000) and continue
WorkerReadError(t) ==
    /\ MayRead(t) /\ pos < StreamLen
    /\ SetPc(t, "loop", NULL)
    /\ UNCHANGED <<ctxVars, clockVars, video_buffer, main, nextId, released,
                   queueObs, stopObs, image, showObs, apiObs,
                   audioVars, lockVars, joins>>

AV_PIX_FMT_NONE == "AV_PIX_FMT_NONE"

\* width, height and format of the frame avcodec_receive_frame gives for
\* each outcome of a video packet
Picture(outcome) ==
    [width  |-> IF outcome = "no_width" THEN 0 ELSE 2,
     height |-> IF outcome = "no_height" THEN 0 ELSE 2,
     format |-> IF outcome = "no_format" THEN AV_PIX_FMT_NONE ELSE "yuv420p"]

\* mutant: the format of the frame is not examined
frame_invalid_format_unchecked(f) ==
    f.width = 0 \/ f.height = 0

\* frame->width == 0 || frame->height == 0 || frame->format == AV_PIX_FMT_NONE
frame_invalid(f) ==
    f.width = 0 \/ f.height = 0 \/ f.format = AV_PIX_FMT_NONE

\* a video packet: avcodec_send_packet / avcodec_receive_frame give
\*   "none"      no frame (send failed, EAGAIN, receive error)
\*   "no_width", "no_height", "no_format"
\*               a frame of zero width, of zero height, without format: it
\*               is unreferenced and the receive loop goes on
\*   "pts"       a valid frame with the timestamp of the packet
\*   "nopts"     a valid frame without timestamp
WorkerVideoPacket(t, outcome) ==
    /\ MayRead(t) /\ pos < StreamLen
    /\ pos' = pos + 1
    /\ CASE outcome = "none"               -> SetPc(t, "loop", NULL)
         [] frame_invalid(Picture(outcome)) -> SetPc(t, "loop", NULL)
         [] outcome = "nopts" -> GotFrame(t, Decoded(AV_NOPTS_VALUE))
         [] OTHER             -> GotFrame(t, Decoded(PtsOf(pos)))
    /\ UNCHANGED <<ctx, is_playing, is_paused, playback_thread, has_audio,
                   timer_paused, auto_restart, audio_enabled, clockVars,
                   video_buffer, main, nextId, released, queueObs, stopObs, image, showObs, apiObs,
                   audioVars, lockVars, joins>>

\* bytes of one output sample (16-bit stereo)
SAMPLE_BYTES == 4

\* if(dst_nb_samples > audio_buf_size / 4): audio_buf_size is set to
\* dst_nb_samples * 4, then av_realloc is called; when it fails the old block
\* stays behind audio_buf and the frame is given up
audio_buf_fit(buf, size, dst_nb_samples, reallocOk) ==
    IF dst_nb_samples > size \div SAMPLE_BYTES
    THEN [audio_buf_size |-> dst_nb_samples * SAMPLE_BYTES,
          audio_buf      |-> IF reallocOk THEN dst_nb_samples * SAMPLE_BYTES
                             ELSE buf,
          ok             |-> reallocOk]
    ELSE [audio_buf_size |-> size, audio_buf |-> buf, ok |-> TRUE]

\* what the decoder, av_realloc, swr_convert and ffmpeg_audio_pcm_write do
\* for one audio packet:
\*   frame      "none" (send failed or no frame), "pts", "nopts"
\*   dst        dst_nb_samples of the frame
\*   reallocOk  av_realloc succeeds
\*   convOk     swr_convert gives out_samples > 0
\*   writeOk    ffmpeg_audio_pcm_write returns 0 (FALSE: it returns -1)
AudioIn(frame, dst, reallocOk, convOk, writeOk) ==
    [frame |-> frame, dst |-> dst, reallocOk |-> reallocOk, convOk |-> convOk,
     writeOk |-> writeOk]

\* mutant: the audio branch does not test player->audio_enabled
audio_packet_ungated(enabled, in, pts, a_pts, st, now, buf, size) ==
    LET sent    == TRUE
        decoded == sent /\ in.frame # "none"
        stamped == decoded /\ in.frame = "pts"
        clock   == IF stamped THEN pts ELSE a_pts
        fit     == audio_buf_fit(buf, size, in.dst, in.reallocOk)
        conv    == decoded /\ fit.ok
        write   == conv /\ in.convOk
    IN  [sent           |-> sent,
         decoded        |-> decoded,
         audio_pts      |-> clock,
         start_time     |-> IF stamped /\ st = 0 THEN now ELSE st,
         audio_buf      |-> IF decoded THEN fit.audio_buf ELSE buf,
         audio_buf_size |-> IF decoded THEN fit.audio_buf_size ELSE size,
         converted      |-> conv,
         written        |-> write,
         clock_at_write |-> clock,
         failed         |-> (decoded /\ ~fit.ok) \/ (write /\ ~in.writeOk)]

\* the audio branch of ffmpeg_playback_thread for one packet with timestamp
\* pts, in program order: the test of audio_enabled, the decoder, the clock
\* update, the buffer, swr_convert, ffmpeg_audio_pcm_write.  a_pts, st: the
\* context's audio_pts and start_time; buf, size: the thread's audio_buf
\* (bytes behind it) and audio_buf_size.
audio_packet(enabled, in, pts, a_pts, st, now, buf, size) ==
    LET sent    == enabled
        decoded == sent /\ in.frame # "none"
        stamped == decoded /\ in.frame = "pts"
        clock   == IF stamped THEN pts ELSE a_pts
        fit     == audio_buf_fit(buf, size, in.dst, in.reallocOk)
        conv    == decoded /\ fit.ok
        write   == conv /\ in.convOk
    IN  [sent           |-> sent,
         decoded        |-> decoded,
         audio_pts      |-> clock,
         start_time     |-> IF stamped /\ st = 0 THEN now ELSE st,
         audio_buf      |-> IF decoded THEN fit.audio_buf ELSE buf,
         audio_buf_size |-> IF decoded THEN fit.audio_buf_size ELSE size,
         converted      |-> conv,
         written        |-> write,
         clock_at_write |-> clock,
         failed         |-> (decoded /\ ~fit.ok) \/ (write /\ ~in.writeOk)]

\* an audio packet read by thread t.  Here every frame has one sample and
\* av_realloc, swr_convert and the PCM write succeed; the thread's buffer
\* is followed in the audio harness.
WorkerAudioPacket(t, outcome, now) ==
    /\ MayRead(t) /\ pos < StreamLen /\ has_audio
    /\ pos' = pos + 1
    /\ LET r == audio_packet(audio_enabled,
                             AudioIn(outcome, 1, TRUE, TRUE, TRUE),
                             PtsOf(pos), audio_pts, start_time, now, 0, 0)
       IN  IF r.decoded /\ outcome = "pts"
           THEN /\ audio_pts' = r.audio_pts
                /\ start_time' = r.start_time
                /\ lateWrite' = (lateWrite \/ quiesced)
           ELSE UNCHANGED <<audio_pts, start_time, lateWrite>>
    /\ SetPc(t, "loop", NULL)
    /\ UNCHANGED <<ctx, is_playing, is_paused, playback_thread, has_audio,
                   timer_paused, auto_restart, audio_enabled, video_pts,
                   frame_drop_count, frame_repeat_count, video_buffer,
                   main, nextId, released, queueObs, quiesced, image, showObs, apiObs,
                   audioVars, lockVars, joins>>

\* a packet of another stream: av_packet_unref and continue
WorkerOtherPacket(t) ==
    /\ MayRead(t) /\ pos < StreamLen
    /\ pos' = pos + 1
    /\ SetPc(t, "loop", NULL)
    /\ UNCHANGED <<ctx, is_playing, is_paused, playback_thread, has_audio,
                   timer_paused, auto_restart, audio_enabled, clockVars,
                   video_buffer, main, nextId, released, queueObs, stopObs,
                   image, showObs, apiObs,
                   audioVars, lockVars, joins>>

\* a valid decoded frame: video_pts and start_time are updated, then the
\* frame is referenced and converted into the image buffer the player's
\* image descriptor points to (outOk = FALSE: av_frame_ref or
\* ffmpeg_output_video_frame failed before the copy, the frame is dropped).
\* The test of start_time and the write that follows it are not atomic:
\* when another thread has set start_time since this frame was decoded
\* (st0 and start_time # 0), the test may have been made before that write
\* (tested = TRUE, start_time is written again) or after it.
WorkerClock(t, now, outOk, tested) ==
    /\ Running(t) /\ threads[t].pc = "frame"
    /\ tested => (threads[t].st0 /\ start_time # 0
                    /\ threads[t].frame.pts # AV_NOPTS_VALUE)
    /\ IF threads[t].frame.pts # AV_NOPTS_VALUE
       THEN /\ video_pts' = threads[t].frame.pts
            /\ start_time' = IF tested THEN now ELSE StartTimeAt(now)
            /\ lateWrite' = (lateWrite \/ quiesced)
       ELSE UNCHANGED <<video_pts, start_time, lateWrite>>
    /\ IF outOk
       THEN /\ threads' = [threads EXCEPT ![t].pc = "push", ![t].st0 = FALSE]
            /\ image' = threads[t].frame.pts
       ELSE /\ SetPc(t, "loop", NULL)
            /\ image' = image
    /\ UNCHANGED <<ctxVars, audio_pts, frame_drop_count, frame_repeat_count,
                   video_buffer, main, nextId, released, queueObs, quiesced,
                   showObs, apiObs,
                   audioVars, lockVars, joins>>

\* video_buffer_push(&ffmpeg_ctx->video_buffer, frame); av_frame_unref(frame)
WorkerPush(t, cloneOk) ==
    /\ Running(t) /\ threads[t].pc = "push"
    /\ cloneOk => nextId < MaxClones
    /\ LET r == video_buffer_push(video_buffer, threads[t].frame,
                                  IF cloneOk THEN nextId + 1 ELSE 0)
       IN  /\ video_buffer' = r.buf
           /\ released' = AfterPush(released, r.freed, cloneOk)
           /\ ungated' = (ungated \/ (threads[t].skip /\ r.ret = 0))
    /\ nextId' = IF cloneOk THEN nextId + 1 ELSE nextId
    /\ lateWrite' = (lateWrite \/ quiesced)
    /\ SetPc(t, "loop", NULL)
    /\ UNCHANGED <<ctxVars, clockVars, main, queueObs, quiesced, image, drift, apiObs,
                   audioVars, lockVars, joins>>

\* a thread whose context was closed under it.  Every access is to a
\* destroyed buffer or to freed memory; what it does is one of: it ends
\* ("exit": it reads is_playing as 0, or its push finds the buffer
\* uninitialised); it goes on with its iteration ("go"); its push, already
\* past the initialized test, stores a clone in the destroyed buffer
\* ("store"), where nothing releases it.
WorkerStale(t, outcome) ==
    /\ t \in 1 .. Len(threads)
    /\ threads[t].stale /\ Alive(t)
    /\ CASE outcome = "exit" ->
              /\ SetPc(t, "done", NULL)
              /\ UNCHANGED <<nextId, released>>
         [] outcome = "go" ->
              /\ threads[t].pc \in {"loop", "poll", "frame"}
              /\ SetPc(t, IF threads[t].pc = "frame" THEN "push" ELSE "frame",
                       Decoded(AV_NOPTS_VALUE))
              /\ UNCHANGED <<nextId, released>>
         [] OTHER ->
              /\ threads[t].pc = "push"
              /\ nextId < MaxClones
              /\ nextId' = nextId + 1
              /\ released' = Append(released, 0)
              /\ SetPc(t, "loop", NULL)
    /\ UNCHANGED <<ctxVars, clockVars, video_buffer, main, queueObs, stopObs, image, showObs, apiObs,
                   audioVars, lockVars, joins>>

InvalidOutcomes == {"no_width", "no_height", "no_format"}
VideoOutcomes == {"none", "pts", "nopts"} \cup InvalidOutcomes
AudioOutcomes == {"none", "pts", "nopts"}
StaleOutcomes == {"exit", "go", "store"}
Times == 1 .. MaxTime
\* two successive readings of the clock
TwoTimes == 1 .. (MaxTime + 1)
Tids == 1 .. MaxThreads

\* the steps of thread t when get_current_time_ms() returns a value of T
WorkerIn(t, T) ==
    \/ WorkerExit(t)
    \/ WorkerPaused(t)
    \/ WorkerEof(t)
    \/ WorkerReadError(t)
    \/ \E o \in VideoOutcomes : WorkerVideoPacket(t, o)
    \/ \E o \in AudioOutcomes : \E now \in T : WorkerAudioPacket(t, o, now)
    \/ WorkerOtherPacket(t)
    \/ \E now \in T : \E ok \in BOOLEAN : \E tested \in BOOLEAN :
           WorkerClock(t, now, ok, tested)
    \/ \E ok \in BOOLEAN : WorkerPush(t, ok)
    \/ \E o \in StaleOutcomes : WorkerStale(t, o)

Worker(t) == WorkerIn(t, Times)

Next ==
    \/ SetSrcBegin
    \/ \E ok \in BOOLEAN : \E audio \in BOOLEAN : SetSrcRest(ok, audio)
    \/ DeleteBegin
    \/ DeleteRest
    \/ CmdNoCtx
    \/ CmdStart
    \/ CmdStopBegin
    \/ CmdStopJoined
    \/ CmdStopIdle
    \/ CmdPause
    \/ CmdResume
    \/ \E en \in BOOLEAN : SetAutoRestart(en)
    \/ \E en \in BOOLEAN : SetAudioEnabled(en)
    \/ TickHold
    \/ TickRestart
    \/ TickStop
    \/ TickFrame
    \/ \E t \in Tids : Worker(t)

Spec == Init /\ [][Next]_vars

(* ---------------------------------------------------------------------- *)
(* Audio harness: one playback thread of a playing context with an audio   *)
(* stream reads audio and video packets in any order, with every outcome   *)
(* of the decoder, of av_realloc, of swr_convert and of the PCM write,     *)
(* while the application switches audio on and off                         *)
(* ---------------------------------------------------------------------- *)
MaxPackets == 4
MaxSamples == 2
MaxVideo == 2

AudioIns ==
    {AudioIn(f, d, r, c, w) : f \in AudioOutcomes, d \in 1 .. MaxSamples,
                              r \in BOOLEAN, c \in BOOLEAN, w \in BOOLEAN}

InitA ==
    /\ ctx = "open"
    /\ video_buffer = video_buffer_init(TRUE)
    /\ is_playing = TRUE
    /\ is_paused = FALSE
    /\ playback_thread = 0
    /\ has_audio = TRUE
    /\ video_pts = AV_NOPTS_VALUE
    /\ audio_pts = AV_NOPTS_VALUE
    /\ start_time = 0
    /\ frame_drop_count = 0
    /\ frame_repeat_count = 0
    /\ pos = 0
    /\ timer_paused = FALSE
    /\ auto_restart = FALSE
    /\ audio_enabled = TRUE
    /\ threads = << >>
    /\ main = "idle"
    /\ nextId = 0
    /\ released = << >>
    /\ nDecoded = 0
    /\ pushed = << >>
    /\ popped = << >>
    /\ evicted = 0
    /\ last = NoOp
    /\ quiesced = FALSE
    /\ lateWrite = FALSE
    /\ image = AV_NOPTS_VALUE
    /\ ungated = FALSE
    /\ drift = NoCall
    /\ result = "ok"
    /\ ignored = FALSE
    /\ ready = FALSE
    /\ shown = AV_NOPTS_VALUE
    /\ audio_buf = 0
    /\ audio_buf_size = 0
    /\ pcm = NoPcm
    /\ audio_fault = FALSE
    /\ mutex = "free"
    /\ lk = NoCallers
    /\ joins = [h \in 0 .. MaxThreads |-> 0]

\* the thread reads an audio packet
AudioPacket(in, now) ==
    /\ pos < MaxPackets
    /\ LET r == audio_packet(audio_enabled, in, PtsOf(pos), audio_pts,
                             start_time, now, audio_buf, audio_buf_size)
       IN  /\ audio_pts' = r.audio_pts
           /\ start_time' = r.start_time
           /\ audio_buf' = r.audio_buf
           /\ audio_buf_size' = r.audio_buf_size
           /\ pcm' = IF r.written
                     THEN [n     |-> pcm.n + 1,
                           pts   |-> IF in.frame = "pts" THEN PtsOf(pos)
                                     ELSE AV_NOPTS_VALUE,
                           clock |-> r.clock_at_write]
                     ELSE pcm
           /\ audio_fault' = (audio_fault \/ r.failed)
    /\ pos' = pos + 1
    /\ UNCHANGED <<ctx, is_playing, is_paused, playback_thread, has_audio,
                   timer_paused, auto_restart, audio_enabled, video_pts,
                   frame_drop_count, frame_repeat_count, video_buffer, threads,
                   main, nextId, released, queueObs, stopObs, image, showObs,
                   apiObs, lockVars, joins>>

\* the thread reads a video packet and pushes its frame
VideoFrame(cloneOk) ==
    /\ nDecoded < MaxVideo
    /\ QPush(cloneOk)

NextA ==
    \/ \E in \in AudioIns : \E now \in Times : AudioPacket(in, now)
    \/ \E cloneOk \in BOOLEAN : VideoFrame(cloneOk)
    \/ \E en \in BOOLEAN : SetAudioEnabled(en)

SpecA == InitA /\ [][NextA]_vars

(* ---------------------------------------------------------------------- *)
(* Lock harness: video_buffer_push, video_buffer_pop and                   *)
(* video_buffer_destroy statement by statement around                      *)
(* pthread_mutex_lock / pthread_mutex_unlock.  The callers are the thread  *)
(* of the last START ("last"), a thread of an earlier START that nothing   *)
(* has joined ("left", see CmdStart) and the LVGL thread ("main"), which   *)
(* pops in the tick and destroys the queue in ffmpeg_close once it has     *)
(* joined the thread of the last START.                                    *)
(* ---------------------------------------------------------------------- *)
MaxLockPush == 3

Producers == {"last", "left"}
Callers   == Producers \cup {"main"}

\* between pthread_mutex_lock and pthread_mutex_unlock
Holding == {"push_in", "push_unlock", "pop_in", "pop_unlock",
            "destroy_in", "destroy_unlock"}

lockRest == <<ctxVars, clockVars, threads, main, pushed, popped, evicted, last,
              stopObs, image, showObs, apiObs, audioVars, joins>>

InitL ==
    /\ ctx = "open"
    /\ video_buffer = video_buffer_init(TRUE)
    /\ is_playing = TRUE
    /\ is_paused = FALSE
    /\ playback_thread = 0
    /\ has_audio = FALSE
    /\ video_pts = AV_NOPTS_VALUE
    /\ audio_pts = AV_NOPTS_VALUE
    /\ start_time = 0
    /\ frame_drop_count = 0
    /\ frame_repeat_count = 0
    /\ pos = 0
    /\ timer_paused = FALSE
    /\ auto_restart = FALSE
    /\ audio_enabled = TRUE
    /\ threads = << >>
    /\ main = "idle"
    /\ nextId = 0
    /\ released = << >>
    /\ nDecoded = 0
    /\ pushed = << >>
    /\ popped = << >>
    /\ evicted = 0
    /\ last = NoOp
    /\ quiesced = FALSE
    /\ lateWrite = FALSE
    /\ image = AV_NOPTS_VALUE
    /\ ungated = FALSE
    /\ drift = NoCall
    /\ result = "ok"
    /\ ignored = FALSE
    /\ ready = FALSE
    /\ shown = AV_NOPTS_VALUE
    /\ audio_buf = 0
    /\ audio_buf_size = 0
    /\ pcm = NoPcm
    /\ audio_fault = FALSE
    /\ mutex = "free"
    /\ lk = [c \in Callers |-> IF c = "main" THEN "idle" ELSE "run"]
    /\ joins = [h \in 0 .. MaxThreads |-> 0]

Goto(c, pc) == lk' = [lk EXCEPT ![c] = pc]

\* a producer has read and decoded a packet and calls video_buffer_push:
\* the test of buf->initialized, before the lock
PushCall(c) ==
    /\ lk[c] = "run" /\ nDecoded < MaxLockPush
    /\ video_buffer.initialized
    /\ nDecoded' = nDecoded + 1
    /\ Goto(c, "push_lock")
    /\ UNCHANGED <<mutex, video_buffer, nextId, released, lockRest>>

\* pthread_mutex_lock(&buf->mutex); no caller examines what it returns.
\* On a destroyed mutex the call is undefined: it may fail at once
\* (works = FALSE) or lock the object as if it were initialised.
MutexLock(c, works) ==
    /\ lk[c] \in {"push_lock", "pop_lock", "destroy_lock"}
    /\ \/ mutex = "free" /\ mutex' = c
       \/ mutex = "destroyed" /\ mutex' = IF works THEN c ELSE mutex
    /\ Goto(c, CASE lk[c] = "push_lock" -> "push_in"
                 [] lk[c] = "pop_lock"  -> "pop_in"
                 [] OTHER               -> "destroy_in")
    /\ UNCHANGED <<video_buffer, nextId, released, nDecoded, lockRest>>

\* the statements of video_buffer_push between lock and unlock.  On a
\* queue that was destroyed since the test of initialized they work on
\* released slots; what they leave there is not followed.
PushBody(c, cloneOk) ==
    /\ lk[c] = "push_in"
    /\ cloneOk => nextId < MaxFrames
    /\ IF video_buffer.initialized
       THEN LET r == video_buffer_push(video_buffer, Decoded(PtsOf(nDecoded)),
                                       IF cloneOk THEN nextId + 1 ELSE 0)
            IN  /\ video_buffer' = r.buf
                /\ released' = AfterPush(released, r.freed, cloneOk)
       ELSE /\ video_buffer' = video_buffer
            /\ released' = AfterPush(released, NULL, cloneOk)
    /\ nextId' = IF cloneOk THEN nextId + 1 ELSE nextId
    /\ Goto(c, "push_unlock")
    /\ UNCHANGED <<mutex, nDecoded, lockRest>>

\* pthread_mutex_unlock and return, on both paths of push
PushUnlock(c) ==
    /\ lk[c] = "push_unlock"
    /\ mutex' = IF mutex = c THEN "free" ELSE mutex
    /\ Goto(c, "run")
    /\ UNCHANGED <<video_buffer, nextId, released, nDecoded, lockRest>>

\* the loop of a producer ends
ProducerEnd(c) ==
    /\ lk[c] = "run"
    /\ Goto(c, "ended")
    /\ UNCHANGED <<mutex, video_buffer, nextId, released, nDecoded, lockRest>>

\* the tick calls video_buffer_pop: the test of buf->initialized
PopCall ==
    /\ lk["main"] = "idle"
    /\ video_buffer.initialized
    /\ Goto("main", "pop_lock")
    /\ UNCHANGED <<mutex, video_buffer, nextId, released, nDecoded, lockRest>>

\* the statements of video_buffer_pop between lock and unlock
PopBody ==
    /\ lk["main"] = "pop_in"
    /\ LET r == video_buffer_pop(video_buffer)
       IN  /\ video_buffer' = r.buf
           /\ released' = Release(released, r.frame)
    /\ Goto("main", "pop_unlock")
    /\ UNCHANGED <<mutex, nextId, nDecoded, lockRest>>

\* pthread_mutex_unlock and return, on both paths of pop
PopUnlock ==
    /\ lk["main"] = "pop_unlock"
    /\ mutex' = IF mutex = "main" THEN "free" ELSE mutex
    /\ Goto("main", "idle")
    /\ UNCHANGED <<video_buffer, nextId, released, nDecoded, lockRest>>

\* ffmpeg_close has joined ffmpeg_ctx->playback_thread and calls
\* video_buffer_destroy
DestroyCall ==
    /\ lk["main"] = "idle" /\ lk["last"] = "ended"
    /\ video_buffer.initialized
    /\ Goto("main", "destroy_lock")
    /\ UNCHANGED <<mutex, video_buffer, nextId, released, nDecoded, lockRest>>

\* the loop of video_buffer_destroy that frees the queued frames
DestroyBody ==
    /\ lk["main"] = "destroy_in"
    /\ video_buffer' = [video_buffer_destroy(video_buffer).buf
                           EXCEPT !.initialized = TRUE]
    /\ released' = [i \in 1 .. Len(released) |->
                       IF \E f \in video_buffer_destroy(video_buffer).freed :
                              f.id = i
                       THEN Min(released[i] + 1, 2) ELSE released[i]]
    /\ Goto("main", "destroy_unlock")
    /\ UNCHANGED <<mutex, nextId, nDecoded, lockRest>>

DestroyUnlock ==
    /\ lk["main"] = "destroy_unlock"
    /\ mutex' = IF mutex = "main" THEN "free" ELSE mutex
    /\ Goto("main", "destroy_mutex")
    /\ UNCHANGED <<video_buffer, nextId, released, nDecoded, lockRest>>

\* pthread_mutex_destroy, pthread_cond_destroy, initialized = false.
\* Destroying a mutex another thread has locked is undefined: the mutex may
\* stay as it is (gone = FALSE).
DestroyMutex(gone) ==
    /\ lk["main"] = "destroy_mutex"
    /\ mutex' = IF mutex = "free" \/ gone THEN "destroyed" ELSE mutex
    /\ video_buffer' = [video_buffer EXCEPT !.initialized = FALSE]
    /\ Goto("main", "closed")
    /\ UNCHANGED <<nextId, released, nDecoded, lockRest>>

NextL ==
    \/ \E c \in Producers : PushCall(c)
    \/ \E c \in Callers : \E works \in BOOLEAN : MutexLock(c, works)
    \/ \E c \in Producers : \E cloneOk \in BOOLEAN : PushBody(c, cloneOk)
    \/ \E c \in Producers : PushUnlock(c)
    \/ \E c \in Producers : ProducerEnd(c)
    \/ PopCall
    \/ PopBody
    \/ PopUnlock
    \/ DestroyCall
    \/ DestroyBody
    \/ DestroyUnlock
    \/ \E gone \in BOOLEAN : DestroyMutex(gone)

SpecL == InitL /\ [][NextL]_vars

(* ---------------------------------------------------------------------- *)
(* Claims about the frame queue (checked under SpecQ)                      *)
(* ---------------------------------------------------------------------- *)
IsSubSeq(s, t) ==
    \* s is a subsequence of the strictly increasing sequence t
    /\ \A i \in 1 .. Len(s) : \E j \in 1 .. Len(t) : s[i] = t[j]
    /\ \A i \in 1 .. Len(s) : \A j \in 1 .. Len(s) : i < j => s[i] < s[j]

IsPrefix(s, t) ==
    /\ Len(s) <= Len(t)
    /\ \A i \in 1 .. Len(s) : s[i] = t[i]

\* C1: the frames returned by pop are a subsequence of the frames stored by
\* push, in push order and without repetition; as long as no overflow
\* eviction has happened they are exactly the first frames pushed, in order.
C1_FifoOrder ==
    /\ IsSubSeq(popped, pushed)
    /\ evicted = 0 => IsPrefix(popped, pushed)

C1_Witness ==
    /\ Len(popped) >= 3
    /\ evicted >= 1
    /\ video_buffer.count >= 1

\* C2: the count of an initialised queue stays within 0 .. capacity.
C2_CountBound ==
    video_buffer.initialized =>
        /\ 0 <= video_buffer.count
        /\ video_buffer.count <= VIDEO_BUFFER_SIZE
        /\ VIDEO_BUFFER_SIZE = 5

C2_Witness ==
    /\ last.op = "push"
    /\ last.pre.count = VIDEO_BUFFER_SIZE
    /\ video_buffer.count = VIDEO_BUFFER_SIZE

\* C3 (as stated): after any push, count = min(previous count + 1, capacity).
C3_Original ==
    last.op = "push" =>
        video_buffer.count = Min(last.pre.count + 1, VIDEO_BUFFER_SIZE)

\* C3 (amended): after a push whose clone succeeded, count =
\* min(previous count + 1, capacity); after a push whose clone failed,
\* count = min(previous count, capacity - 1).
C3_CountAfterPush ==
    last.op = "push" =>
        /\ last.cloneOk =>
             video_buffer.count = Min(last.pre.count + 1, VIDEO_BUFFER_SIZE)
        /\ ~last.cloneOk =>
             video_buffer.count = Min(last.pre.count, VIDEO_BUFFER_SIZE - 1)

C3_Witness ==
    /\ last.op = "push"
    /\ last.cloneOk
    /\ last.pre.count = VIDEO_BUFFER_SIZE
    /\ video_buffer.count = VIDEO_BUFFER_SIZE
    /\ Len(popped) >= 1


PtsSeq(buf) == [k \in 1 .. buf.count |-> Contents(buf)[k].pts]

\* the frame released is the one at the read cursor and no other slot changed
EvictsOldestOnly ==
    /\ last.out # NULL
    /\ last.out = last.pre.frames[last.pre.read_idx]
    /\ \A i \in Slots \ {last.pre.read_idx} :
           video_buffer.frames[i] = last.pre.frames[i]

StoresNewest ==
    /\ video_buffer.count = VIDEO_BUFFER_SIZE
    /\ Len(Contents(video_buffer)) = VIDEO_BUFFER_SIZE
    /\ \A k \in 1 .. (VIDEO_BUFFER_SIZE - 1) :
           Contents(video_buffer)[k] = Contents(last.pre)[k + 1]
    /\ Contents(video_buffer)[VIDEO_BUFFER_SIZE].pts = last.arg.pts
    /\ Contents(video_buffer)[VIDEO_BUFFER_SIZE].id > 0

\* six pushes of the frames at 0,33,66,100,133,166 ms and no pop
SixPushes ==
    /\ nDecoded = 6
    /\ Len(pushed) = 6
    /\ popped = << >>
    /\ last.op = "push"

\* C4 (as stated): a push into a full queue evicts exactly the oldest frame
\* and no other slot, then stores the new frame as the newest.
C4_Original ==
    (last.op = "push" /\ last.pre.count = VIDEO_BUFFER_SIZE) =>
        EvictsOldestOnly /\ StoresNewest

\* C4 (amended): a push into a full queue evicts exactly the oldest frame
\* (the one at the read cursor) and no other slot; when the clone of the new
\* frame succeeds it is stored as the newest, when it fails nothing is
\* stored and the queue keeps the four younger frames.  Six pushes of
\* 0,33,66,100,133,166 leave 33,66,100,133,166.
C4_OverflowEviction ==
    /\ (last.op = "push" /\ last.pre.count = VIDEO_BUFFER_SIZE) =>
          /\ EvictsOldestOnly
          /\ last.cloneOk => StoresNewest
          /\ ~last.cloneOk =>
                /\ video_buffer.count = VIDEO_BUFFER_SIZE - 1
                /\ \A k \in 1 .. (VIDEO_BUFFER_SIZE - 1) :
                       Contents(video_buffer)[k] = Contents(last.pre)[k + 1]
    /\ SixPushes => PtsSeq(video_buffer) = <<33, 66, 100, 133, 166>>

C4_Witness ==
    /\ SixPushes
    /\ last.pre.count = VIDEO_BUFFER_SIZE
    /\ last.out.pts = 0

\* C5 (as stated): every push on an initialised queue returns success with
\* the frame stored at the write cursor.
C5_Original ==
    last.op = "push" =>
        /\ last.ret = 0
        /\ video_buffer.frames[last.pre.write_idx] # NULL
        /\ video_buffer.frames[last.pre.write_idx].pts = last.arg.pts

\* C5 (amended): a push on an initialised queue, full or not, returns
\* success with the frame stored at the write cursor unless the clone of the
\* frame fails; then it returns -1, stores nothing and leaves the write
\* cursor where it was.
C5_PushResult ==
    last.op = "push" =>
        /\ last.cloneOk =>
              /\ last.ret = 0
              /\ video_buffer.frames[last.pre.write_idx] # NULL
              /\ video_buffer.frames[last.pre.write_idx].pts = last.arg.pts
              /\ video_buffer.write_idx = (last.pre.write_idx + 1) % VIDEO_BUFFER_SIZE
        /\ ~last.cloneOk =>
              /\ last.ret = 0 - 1
              /\ video_buffer.frames[last.pre.write_idx] = NULL
              /\ video_buffer.write_idx = last.pre.write_idx

C5_Witness ==
    /\ last.op = "push"
    /\ last.cloneOk
    /\ last.ret = 0
    /\ last.pre.count = VIDEO_BUFFER_SIZE
    /\ last.pre.write_idx = 1

\* C6: pop on an empty queue returns nothing and changes nothing; otherwise
\* it returns the frame at the read cursor, clears that slot, advances the
\* read cursor by one modulo the capacity and decrements count.
C6_Pop ==
    last.op = "pop" =>
        /\ last.pre.count = 0 =>
              /\ last.out = NULL
              /\ video_buffer = last.pre
        /\ last.pre.count # 0 =>
              /\ last.out # NULL
              /\ last.out = last.pre.frames[last.pre.read_idx]
              /\ video_buffer.frames =
                     [last.pre.frames EXCEPT ![last.pre.read_idx] = NULL]
              /\ video_buffer.read_idx = (last.pre.read_idx + 1) % VIDEO_BUFFER_SIZE
              /\ video_buffer.count = last.pre.count - 1
              /\ video_buffer.write_idx = last.pre.write_idx

C6_Witness ==
    /\ last.op = "pop"
    /\ last.pre.count = 3
    /\ last.pre.read_idx = VIDEO_BUFFER_SIZE - 1
    /\ video_buffer.read_idx = 0

\* pop on an empty queue has been exercised as well
C6_WitnessEmpty ==
    last.op = "pop" /\ last.pre.count = 0 /\ Len(popped) >= 1

Occupied(buf) ==
    {(buf.read_idx + k) % VIDEO_BUFFER_SIZE : k \in 0 .. (buf.count - 1)}

\* C7: in an initialised queue both cursors lie in 0 .. capacity-1, the
\* write cursor is the read cursor plus count modulo the capacity, the count
\* slots starting at the read cursor hold a frame and every other slot is
\* empty.
C7_CursorSlot ==
    video_buffer.initialized =>
        /\ video_buffer.read_idx \in Slots
        /\ video_buffer.write_idx \in Slots
        /\ video_buffer.write_idx =
               (video_buffer.read_idx + video_buffer.count) % VIDEO_BUFFER_SIZE
        /\ \A i \in Slots :
               (video_buffer.frames[i] # NULL) <=> (i \in Occupied(video_buffer))

C7_Witness ==
    /\ video_buffer.initialized
    /\ video_buffer.read_idx = 3
    /\ video_buffer.count = 4
    /\ video_buffer.write_idx = 2
    /\ evicted >= 1


(* ---------------------------------------------------------------------- *)
(* Claims about the player's threads and teardown (checked under Spec)     *)
(* ---------------------------------------------------------------------- *)

\* C8: once a STOP command has returned (and until the next START), no
\* playback thread pushes into the frame queue or writes the playback clock,
\* whatever commands came before the STOP.
C8_StopQuiesces == ~lateWrite

\* C9: the frame queue is never destroyed and the context never freed while
\* a playback thread that was started is still running: on every closing
\* path each started thread has ended before video_buffer_destroy runs.
C9_TeardownSafety ==
    \A t \in 1 .. Len(threads) : ~threads[t].stale

Queued(i) == \E k \in Slots : video_buffer.frames[k].id = i

\* C10: every frame stored in the queue is released exactly once: a clone
\* is unreleased exactly while it sits in a slot of the queue, none is
\* released twice, and after the queue was destroyed none is left unreleased.
C10_ExactlyOnce ==
    \A i \in 1 .. Len(released) :
        /\ released[i] <= 1
        /\ (released[i] = 0) <=> Queued(i)

AliveThreads == {t \in 1 .. Len(threads) : Alive(t)}

\* C11: at any time at most one playback (decode) thread of the player is
\* running, whatever START/STOP/PAUSE/RESUME commands and ticks came before,
\* a START while a thread is running included.
C11_SingleProducer == Cardinality(AliveThreads) <= 1

\* C12: when the demuxer is at end of stream, the playback thread has left
\* its loop and the queue has drained, a tick of the consumer finds "empty
\* and producer stopped" (is_playing clear) and so takes the restart or the
\* stop-and-notify transition.  In a state that violates this the tick
\* returns without effect, and nothing but a command changes that state.
C12_EofSignalled ==
    (/\ TickEnabled
     /\ pos = StreamLen
     /\ playback_thread # 0
     /\ AliveThreads = {}
     /\ video_buffer_pop(video_buffer).frame = NULL)
    => ~is_playing

\* C13: no frame of a video packet that was read while
\* should_skip_video_frame() is true is pushed into the frame queue: the
\* decision comes before anything is queued and the packet is discarded.
C13_SkipGatesEnqueue == ~ungated

(* ---------------------------------------------------------------------- *)
(* Claims about the drift policy (checked under SpecD)                     *)
(* ---------------------------------------------------------------------- *)
Unset(p) == p = AV_NOPTS_VALUE

\* C14: in every clock state, with sync enabled or not,
\* should_skip_video_frame() and should_repeat_video_frame() are not both
\* true, and both are false when audio_pts or video_pts is unset.
C14_DriftSymmetry ==
    \A en \in BOOLEAN :
        LET skip   == should_skip_video_frame(en, has_audio, video_pts,
                                              audio_pts, sync_threshold)
            repeat == should_repeat_video_frame(en, has_audio, video_pts,
                                                audio_pts, sync_threshold)
        IN  /\ ~(skip /\ repeat)
            /\ (Unset(audio_pts) \/ Unset(video_pts)) => (~skip /\ ~repeat)

\* a skip call has returned true, and in the clock state it has left
\* repeat is false
C14_Witness ==
    /\ drift.fn = "skip" /\ drift.ret
    /\ drift.vpts = video_pts /\ drift.apts = audio_pts
    /\ ~should_repeat_video_frame(TRUE, has_audio, video_pts, audio_pts,
                                  sync_threshold)

\* C15: should_skip_video_frame() returns false if sync is disabled, there
\* is no audio stream or either timestamp is unset; otherwise it returns
\* true iff video_pts - audio_pts < -sync_threshold, strictly, with the
\* default threshold of 30 ms: audio 200 / video 150 gives true, audio 200 /
\* video 210 gives false, and a difference of exactly -30 gives false.
C15_SkipDecision ==
    drift.fn = "skip" =>
        /\ sync_threshold = 30
        /\ (~drift.en \/ ~drift.audio \/ Unset(drift.vpts) \/ Unset(drift.apts))
               => ~drift.ret
        /\ (drift.en /\ drift.audio /\ ~Unset(drift.vpts) /\ ~Unset(drift.apts))
               => (drift.ret <=> (drift.vpts - drift.apts < 0 - 30))
        /\ (drift.en /\ drift.audio /\ drift.apts = 200) =>
               /\ drift.vpts = 150 => drift.ret
               /\ drift.vpts = 210 => ~drift.ret
               /\ drift.vpts = 170 => ~drift.ret

C15_Witness ==
    /\ drift.fn = "skip" /\ drift.ret
    /\ drift.apts = 200 /\ drift.vpts = 150
    /\ frame_drop_count = 2

\* the boundary: a difference of exactly -30 has been decided
C15_WitnessBoundary ==
    /\ drift.fn = "skip" /\ drift.en /\ drift.audio
    /\ drift.vpts - drift.apts = 0 - 30
    /\ ~drift.ret

\* C16: should_repeat_video_frame() is false if sync is disabled, there is
\* no audio stream or either timestamp is unset; otherwise it is true iff
\* video_pts - audio_pts > sync_threshold, strictly; frame_repeat_count
\* grows by one when it returns true and is unchanged otherwise.
C16_RepeatDecision ==
    drift.fn = "repeat" =>
        /\ (~drift.en \/ ~drift.audio \/ Unset(drift.vpts) \/ Unset(drift.apts))
               => ~drift.ret
        /\ (drift.en /\ drift.audio /\ ~Unset(drift.vpts) /\ ~Unset(drift.apts))
               => (drift.ret <=> (drift.vpts - drift.apts > 30))
        /\ drift.ret => frame_repeat_count = drift.repeat + 1
        /\ ~drift.ret => frame_repeat_count = drift.repeat

C16_Witness ==
    /\ drift.fn = "repeat" /\ drift.ret
    /\ drift.apts = 200 /\ drift.vpts = 260
    /\ frame_repeat_count = 2

\* a step in which should_skip_video_frame() was called and returned true
SkipTaken == drift'.n # drift.n /\ drift'.fn \in {"skip", "next"} /\ drift'.ret

\* C17: frame_drop_count grows by one in exactly the steps in which
\* should_skip_video_frame() returns true; no other step changes it: not a
\* push that evicts the oldest frame, not a pop, not a repeat decision.
C17_DropCount ==
    [][IF SkipTaken THEN frame_drop_count' = frame_drop_count + 1
                    ELSE frame_drop_count' = frame_drop_count]_vars

\* skips were counted, and an eviction, a pop and a repeat left the count
C17_Witness ==
    /\ frame_drop_count = 1
    /\ drift.fn = "repeat" /\ drift.ret /\ drift.drop = 1
    /\ evicted >= 1
    /\ Len(popped) >= 1
    /\ last.op = "push" /\ last.out # NULL

TickGetsFrame == TickEnabled /\ video_buffer_pop(video_buffer).frame # NULL

\* the tick that can run now returns at the repeat decision, before
\* lv_obj_invalidate
TickRepeats ==
    should_repeat_video_frame(sync_enabled, has_audio, video_pts, audio_pts,
                              sync_threshold)

\* C19: while audio output is disabled on a stream that has audio, a tick
\* that obtains a frame publishes it (reaches lv_obj_invalidate); the
\* consumer is not held on the previous image.  In a state that violates
\* this audio_pts no longer moves and video_pts only grows as the stream is
\* read on, so the ticks that follow are held as well.
C19_VideoWithoutAudio ==
    (TickGetsFrame /\ has_audio /\ ~audio_enabled) => ~TickRepeats

\* C20: the image buffer the renderer draws from when a tick publishes holds
\* the picture of the frame popped at that tick: the playback thread has
\* not written a later picture over it.
C20_FrameOwnership ==
    (TickGetsFrame /\ ~TickRepeats /\ ~skip_this_frame
        /\ ~Unset(video_buffer_pop(video_buffer).frame.pts))
    => image = video_buffer_pop(video_buffer).frame.pts

\* thread t sits in the pause poll: its last test of is_paused found it set
Polling(t) == Running(t) /\ threads[t].pc = "poll"

\* C21: PAUSE during playback sets is_paused and RESUME clears it, and
\* neither ends a thread, touches the queue or releases anything.  A thread
\* that has seen is_paused stays in its poll (no packet read, no push, no
\* clock write) for as long as it is playing and paused, and is_paused is
\* cleared under a polling thread by RESUME only, after which the thread
\* reads the next packet.
C21_PauseResume ==
    [][/\ (CmdPause /\ is_playing) =>
              (is_paused' /\ threads' = threads /\ video_buffer' = video_buffer
                   /\ released' = released /\ ctx' = ctx)
       /\ (CmdResume /\ is_playing) =>
              (~is_paused' /\ threads' = threads /\ video_buffer' = video_buffer
                   /\ released' = released /\ ctx' = ctx /\ pos' = pos)
       /\ \A t \in 1 .. Len(threads) :
              /\ (Polling(t) /\ is_playing /\ is_paused) => threads'[t] = threads[t]
              /\ (Polling(t) /\ is_paused /\ ~is_paused' /\ ctx' = "open"
                       /\ ~threads'[t].stale) => CmdResume
      ]_vars

\* C22 as stated: every write of a playback-clock field of an open context
\* is a step of a playback thread; the tick and the commands only read the
\* clock.  (Replacing or deleting the context is not counted as a write.)
C22_Original ==
    [][(clockVars' # clockVars /\ ctx = "open" /\ main' # "deleted")
           => \/ \E t \in Tids : Worker(t)
              \/ \E ok \in BOOLEAN : \E audio \in BOOLEAN : SetSrcRest(ok, audio)
      ]_vars

\* a step of the application or of the tick that ends in the reset of the
\* synchronisation state
ClockResetStep ==
    \/ CmdStopJoined
    \/ CmdStopIdle
    \/ TickStop
    \/ \E ok \in BOOLEAN : \E audio \in BOOLEAN : SetSrcRest(ok, audio)
    \/ DeleteRest

\* C22: the writers of the playback clock.  A playback thread writes
\* video_pts, audio_pts and start_time and never the two counters; the tick
\* writes frame_repeat_count only, by one, when its repeat decision holds;
\* STOP (from the application or from the tick) and open/close reset all five
\* fields; START, PAUSE, RESUME and the setters write none.
C22_ClockWriters ==
    [][clockVars' # clockVars =>
          \/ /\ \E t \in Tids : Worker(t)
             /\ frame_drop_count' = frame_drop_count
             /\ frame_repeat_count' = frame_repeat_count
          \/ /\ TickFrame
             /\ frame_repeat_count' = frame_repeat_count + 1
             /\ <<video_pts, audio_pts, start_time, frame_drop_count>>' =
                    <<video_pts, audio_pts, start_time, frame_drop_count>>
          \/ /\ ClockResetStep
             /\ clockVars' = <<AV_NOPTS_VALUE, AV_NOPTS_VALUE, 0, 0, 0>>
      ]_vars

\* the tick has counted a repeat on a clock the playback thread wrote
C22_Witness ==
    /\ frame_repeat_count > 0
    /\ video_pts # AV_NOPTS_VALUE /\ audio_pts # AV_NOPTS_VALUE
    /\ start_time # 0

\* C23: no frame remains queued after STOP has returned (until the next
\* START), nor after the stream was closed.
C23_QueueEmptiedOnStop ==
    /\ quiesced => (video_buffer.count = 0 /\ Occupied(video_buffer) = {})
    /\ ctx = "none" => (video_buffer.count = 0 /\ Occupied(video_buffer) = {})

\* every playback thread is scheduled: a thread that can take a step does
\* so eventually (the calls it makes return)
NextFair ==
    \/ SetSrcBegin
    \/ \E ok \in BOOLEAN : \E audio \in BOOLEAN : SetSrcRest(ok, audio)
    \/ CmdStart
    \/ CmdStopBegin
    \/ CmdStopJoined
    \/ CmdStopIdle
    \/ CmdPause
    \/ CmdResume
    \/ TickHold
    \/ TickStop
    \/ TickFrame
    \/ \E t \in Tids : Worker(t)

SpecFair == Init /\ [][NextFair]_vars /\ \A t \in Tids : WF_vars(Worker(t))

PlaybackState ==
    <<is_playing, is_paused, playback_thread, pos, timer_paused, clockVars,
      video_buffer>>

\* C25: when lv_ffmpeg_player_set_src has returned LV_RESULT_INVALID the
\* player holds no context, is not playing and its timer is paused; from
\* then until the next set_src no step creates a playback thread or changes
\* the playback state, the START, STOP, PAUSE and RESUME commands included.
C25_FailedOpen ==
    [][/\ result' = "invalid" =>
              (ctx' = "none" /\ ~is_playing' /\ playback_thread' = 0 /\ timer_paused')
       /\ (result = "invalid" /\ result' = "invalid") =>
              (Len(threads') = Len(threads) /\ PlaybackState' = PlaybackState)
      ]_vars

\* a command was issued after a failed open that followed a playback
C25_Witness ==
    result = "invalid" /\ ignored /\ ctx = "none" /\ Len(threads) > 0

\* the clock field does not go back: from a set value it moves neither to a
\* smaller value nor to unset
NotBack(old, new) == ~Unset(old) => new >= old

\* C26: a successful open leaves video_pts and audio_pts unset, and while
\* the player is playing (before and after the step) neither field goes
\* back.  The timestamps of the stream grow with the read position.
C26_ClockMonotone ==
    [][/\ (\E audio \in BOOLEAN : SetSrcRest(TRUE, audio)) =>
              (Unset(video_pts') /\ Unset(audio_pts'))
       /\ (is_playing /\ is_playing' /\ ctx = "open" /\ ctx' = "open") =>
              (NotBack(video_pts, video_pts') /\ NotBack(audio_pts, audio_pts'))
      ]_vars

\* the commands and the playback threads, with two readings of the clock
NextTimed ==
    \/ SetSrcBegin
    \/ \E ok \in BOOLEAN : \E audio \in BOOLEAN : SetSrcRest(ok, audio)
    \/ CmdStart
    \/ CmdStopBegin
    \/ CmdStopJoined
    \/ CmdStopIdle
    \/ CmdPause
    \/ CmdResume
    \/ \E t \in Tids : WorkerIn(t, TwoTimes)

SpecTimed == Init /\ [][NextTimed]_vars

\* C27: start_time is written when it is 0 only, by the step of a playback
\* thread that records the first timestamp of either kind; once set no step
\* of a playback thread changes it.
C27_StartTimeOnce ==
    [][/\ (start_time # 0 /\ \E t \in Tids : WorkerIn(t, TwoTimes)) =>
              start_time' = start_time
       /\ (start_time = 0 /\ start_time' # 0) =>
              /\ \E t \in Tids : WorkerIn(t, TwoTimes)
              /\ Unset(video_pts) /\ Unset(audio_pts)
              /\ ~Unset(video_pts') \/ ~Unset(audio_pts')
      ]_vars

\* a step of lv_ffmpeg_player_frame_update_cb
TickStep == TickHold \/ TickRestart \/ TickStop \/ TickFrame

\* C28: a tick that finds the queue empty and is_playing clear starts the
\* playback again if auto_restart is set (a new thread, is_playing set, no
\* notification) and otherwise performs STOP and sends LV_EVENT_READY; the
\* notification is sent by no other step, and only with auto_restart off
\* and is_playing clear.
C28_EndOfStreamDispatch ==
    [][/\ (/\ TickEnabled
           /\ video_buffer_pop(video_buffer).frame = NULL
           /\ ~is_playing
           /\ TickStep) =>
              IF auto_restart
              THEN /\ is_playing' /\ ~is_paused' /\ pos' = 0
                   /\ Len(threads') = Len(threads) + 1
                   /\ ~ready'
              ELSE /\ ~is_playing' /\ timer_paused' /\ pos' = 0
                   /\ clockVars' = <<AV_NOPTS_VALUE, AV_NOPTS_VALUE, 0, 0, 0>>
                   /\ threads' = threads
                   /\ ready'
       /\ (~ready /\ ready') =>
              (TickStop /\ ~auto_restart /\ ~is_playing /\ ~is_playing')
      ]_vars

\* the notification was sent after a playback
C28_Witness ==
    ready /\ playback_thread # 0 /\ ~auto_restart /\ ~is_playing

\* the clones released so far
NReleased == Cardinality({i \in 1 .. Len(released) : released[i] > 0})

\* C29: a tick that finds the queue empty while is_playing is set changes
\* nothing (queue, clock, lifecycle flags, threads, image, what is shown),
\* and no tick takes more than one frame from the queue.
C29_EmptyTickHolds ==
    [][/\ (/\ TickEnabled
           /\ video_buffer_pop(video_buffer).frame = NULL
           /\ is_playing
           /\ TickStep) => vars' = vars
       /\ TickStep => /\ video_buffer'.count >= video_buffer.count - 1
                      /\ NReleased' <= NReleased + 1
      ]_vars

\* a tick is due, the queue is empty, the playback thread is at work on a
\* frame that what is shown does not have yet
C29_Witness ==
    /\ TickEnabled /\ is_playing
    /\ video_buffer_pop(video_buffer).frame = NULL
    /\ \E t \in 1 .. Len(threads) : Running(t) /\ threads[t].pc = "push"
    /\ shown # image

C31_InvalidFrameDropped ==
    [][\A t \in Tids : \A o \in InvalidOutcomes :
          WorkerVideoPacket(t, o) =>
              /\ video_buffer' = video_buffer
              /\ video_pts' = video_pts
              /\ start_time' = start_time
              /\ threads'[t].frame = NULL
              /\ threads'[t].pc = "loop"
              /\ Alive(t)'
      ]_vars

\* the thread is back at the top of its loop after its first packet, with
\* no frame decoded by any thread, no clock field written and nothing
\* queued: the packet gave no frame or a frame that was dropped
C31_Witness ==
    /\ is_playing /\ ~is_paused /\ pos = 1
    /\ Len(threads) = 1 /\ Running(1) /\ threads[1].pc = "loop"
    /\ threads[1].frame = NULL
    /\ video_pts = AV_NOPTS_VALUE /\ start_time = 0
    /\ video_buffer.count = 0 /\ nextId = 0

(* ---------------------------------------------------------------------- *)
(* Claims about the audio path (checked under SpecA)                       *)
(* ---------------------------------------------------------------------- *)
\* C32: an audio packet read while audio is disabled is discarded: not
\* decoded (no clock field and no buffer of the decoder path changes),
\* audio_pts as it was, nothing handed to the PCM device.  While audio is
\* enabled a decoded frame with a timestamp sets audio_pts to it, and when
\* its samples are handed to the PCM device audio_pts already holds that
\* timestamp.  No audio packet changes the frame queue.
C32_AudioGate ==
    [][\A in \in AudioIns : \A now \in Times :
          AudioPacket(in, now) =>
              /\ video_buffer' = video_buffer
              /\ queueObs' = queueObs
              /\ ~audio_enabled =>
                     /\ audio_pts' = audio_pts
                     /\ start_time' = start_time
                     /\ pcm' = pcm
                     /\ <<audio_buf, audio_buf_size>>' = <<audio_buf, audio_buf_size>>
              /\ (audio_enabled /\ in.frame = "pts") =>
                     /\ audio_pts' = PtsOf(pos)
                     /\ pcm'.n > pcm.n =>
                            (pcm'.pts = PtsOf(pos) /\ pcm'.clock = PtsOf(pos))
      ]_vars

\* audio is off after one frame was played, a later audio packet has been
\* read, and the queue holds a video frame
C32_Witness ==
    /\ ~audio_enabled
    /\ pos >= 2
    /\ pcm.n = 1 /\ pcm.pts = 0 /\ pcm.clock = 0
    /\ audio_pts = 0
    /\ video_buffer.count >= 1

(* ---------------------------------------------------------------------- *)
(* Claims about the playback thread and the commands                       *)
(* ---------------------------------------------------------------------- *)
\* C33: at end of stream the thread leaves its loop and nothing else
\* changes (is_playing stays set, no error is recorded); after any other
\* read error it is alive at the top of its loop; and a thread leaves its
\* loop only at end of stream or when is_playing is clear (for a thread
\* whose context was closed: ffmpeg_close had cleared it).
C33_LoopExits ==
    [][\A t \in Tids :
          /\ WorkerEof(t) =>
                 /\ ~Alive(t)'
                 /\ <<ctxVars, clockVars, video_buffer, apiObs>>' =
                        <<ctxVars, clockVars, video_buffer, apiObs>>
          /\ WorkerReadError(t) =>
                 /\ Alive(t)' /\ threads'[t].pc = "loop"
                 /\ <<ctxVars, clockVars, video_buffer>>' =
                        <<ctxVars, clockVars, video_buffer>>
          /\ (t <= Len(threads) /\ Alive(t) /\ ~Alive(t)') =>
                 \/ ~is_playing
                 \/ is_playing /\ ~is_paused /\ pos = StreamLen
                 \/ threads[t].stale
      ]_vars

\* the thread has ended at end of stream: is_playing is still set
C33_Witness ==
    /\ is_playing /\ ~is_paused /\ pos = StreamLen
    /\ playback_thread # 0 /\ ~Alive(playback_thread)
    /\ ~threads[playback_thread].stale

\* C34: once a PCM write has failed or av_realloc of the audio buffer has
\* failed, the thread hands no further samples to the PCM device (audio is
\* off for the rest of the playback).
C34_AudioOffAfterFault ==
    [][\A in \in AudioIns : \A now \in Times :
          (audio_fault /\ AudioPacket(in, now)) => pcm' = pcm
      ]_vars

\* C40: audio_buf_size never exceeds the bytes allocated behind audio_buf.
C40_BufSizeWithinAlloc ==
    audio_buf_size <= audio_buf

(* ---------------------------------------------------------------------- *)
(* The failed push (checked under SpecQ)                                   *)
(* ---------------------------------------------------------------------- *)
\* C36: a push whose clone fails returns -1 with the write cursor where it
\* was and with write cursor = (read cursor + count) mod capacity; on a
\* queue that was not full it changes nothing, on a full queue the oldest
\* frame has been released and the read cursor advanced, so that count is
\* capacity - 1.
C36_FailedClonePush ==
    (last.op = "push" /\ ~last.cloneOk) =>
        /\ last.ret = 0 - 1
        /\ video_buffer.write_idx = last.pre.write_idx
        /\ video_buffer.write_idx =
               (video_buffer.read_idx + video_buffer.count) % VIDEO_BUFFER_SIZE
        /\ IF last.pre.count = VIDEO_BUFFER_SIZE
           THEN /\ video_buffer.count = VIDEO_BUFFER_SIZE - 1
                /\ last.out # NULL
                /\ last.out = last.pre.frames[last.pre.read_idx]
                /\ released[last.out.id] = 1
                /\ video_buffer.read_idx =
                       (last.pre.read_idx + 1) % VIDEO_BUFFER_SIZE
           ELSE /\ video_buffer = last.pre
                /\ last.out = NULL

\* a failed push on a full queue whose cursors are not at slot 0
C36_Witness ==
    /\ last.op = "push" /\ ~last.cloneOk
    /\ last.pre.count = VIDEO_BUFFER_SIZE
    /\ last.pre.read_idx = 2
    /\ video_buffer.count = VIDEO_BUFFER_SIZE - 1

\* C38: PAUSE sets and RESUME clears is_paused when is_playing is set and
\* both leave is_paused alone when it is clear; neither changes is_playing.
\* START sets is_playing, clears is_paused and creates a thread at the top
\* of its loop.  STOP leaves is_playing clear and is_paused as it was.
C38_LifecycleFlags ==
    [][/\ CmdPause =>
            /\ is_playing' = is_playing
            /\ is_paused' = (is_playing \/ is_paused)
       /\ CmdResume =>
            /\ is_playing' = is_playing
            /\ is_paused' = (~is_playing /\ is_paused)
       /\ CmdStart =>
            /\ is_playing' /\ ~is_paused'
            /\ threads' = Append(threads, NewThread)
            /\ playback_thread' = Len(threads')
       /\ (CmdStopBegin \/ CmdStopJoined \/ CmdStopIdle) =>
            /\ ~is_playing'
            /\ is_paused' = is_paused
      ]_vars

\* STOP has returned on a paused playback: is_paused is still set
C38_Witness ==
    /\ ctx = "open" /\ main = "idle" /\ quiesced
    /\ ~is_playing /\ is_paused
    /\ playback_thread # 0

\* the skip decision on the present clock
Skips ==
    should_skip_video_frame(sync_enabled, has_audio, video_pts, audio_pts,
                            sync_threshold)

NextJoin ==
    \/ SetSrcBegin
    \/ \E ok \in BOOLEAN : \E audio \in BOOLEAN : SetSrcRest(ok, audio)
    \/ CmdStart
    \/ CmdStartNoThread
    \/ CmdStopBegin
    \/ CmdStopJoined
    \/ CmdStopIdle
    \/ CmdPause
    \/ CmdResume
    \/ \E t \in Tids : Worker(t)

SpecJoin == Init /\ [][NextJoin]_vars

\* C37: no thread handle is passed to pthread_join more than once, and the
\* zero handle of a context that never created a thread is never joined.
C37_JoinedOnce ==
    /\ \A h \in 1 .. MaxThreads : joins[h] <= 1
    /\ joins[0] = 0

(* ---------------------------------------------------------------------- *)
(* The mutex of the queue (checked under SpecL)                            *)
(* ---------------------------------------------------------------------- *)
\* C35: a caller is among the statements of push, pop or destroy that
\* access the cursors, count and slots only while it owns the mutex of the
\* queue; no two callers are among them at once; and a caller owns the
\* mutex only there: it has released it when push or pop return, and does
\* not own it while it reads or decodes a packet.
C35_LockDiscipline ==
    /\ \A c \in Callers : lk[c] \in Holding => mutex = c
    /\ Cardinality({c \in Callers : lk[c] \in Holding}) <= 1
    /\ \A c \in Callers : mutex = c => lk[c] \in Holding
====
